---- MODULE Spec2Model ----
(***************************************************************************)
(* Model of RealEstateDataProcessor (src/real_estate_processor.py):       *)
(* column mapping, per-row normalisation, contact filter, and the          *)
(* combine-and-deduplicate step of process_memory_files.                   *)
(*                                                                         *)
(* Python strings are sequences of one-character strings; a cell value is  *)
(* a record [k, s] with k = "str" (s the text), "nan" (pandas' missing     *)
(* value) or "int" (s the decimal digits of a non-negative integer).       *)
(***************************************************************************)
EXTENDS Integers, Sequences, FiniteSets, TLC

(* ----------------------------- characters ------------------------------ *)

Upper == <<"A","B","C","D","E","F","G","H","I","J","K","L","M",
           "N","O","P","Q","R","S","T","U","V","W","X","Y","Z">>

Lower == <<"a","b","c","d","e","f","g","h","i","j","k","l","m",
           "n","o","p","q","r","s","t","u","v","w","x","y","z">>

Digits == <<"0","1","2","3","4","5","6","7","8","9">>

\* The characters of the model in code-point order (the order str comparison uses).
AsciiOrder == <<"\t", "\n", "\r", " ", "#", "(", ")", "+", "-", ".">> \o Digits
              \o Upper \o <<"\\", "_">> \o Lower \o <<"|">>

SeqToSet(s) == { s[i] : i \in 1..Len(s) }

IndexOf(c, seq) == CHOOSE i \in 1..Len(seq) : seq[i] = c

SetMin(S) == CHOOSE x \in S : \A y \in S : x <= y

SetMax(S) == CHOOSE x \in S : \A y \in S : x >= y

\* The whitespace characters of the model (\s, str.strip, str.split)
SpaceChars == {" ", "\t", "\n", "\r"}

DigitChars == SeqToSet(Digits)

\* The character class [A-Za-z0-9-] of the unit patterns
TokenChars == SeqToSet(Upper) \cup SeqToSet(Lower) \cup SeqToSet(Digits) \cup {"-"}

IsSpace(c) == c \in SpaceChars

IsDigit(c) == c \in DigitChars

IsTokenCh(c) == c \in TokenChars

\* The lower-case letter of each upper-case letter
LowerOf == [c \in SeqToSet(Upper) |-> Lower[IndexOf(c, Upper)]]

lower_ch(c) == IF c \in DOMAIN LowerOf THEN LowerOf[c] ELSE c

RECURSIVE lower(_)
\* str.lower()
lower(s) == IF s = <<>> THEN <<>> ELSE <<lower_ch(Head(s))>> \o lower(Tail(s))

\* str.strip()
strip(s) ==
    LET ns == { i \in 1..Len(s) : ~IsSpace(s[i]) }
    IN  IF ns = {} THEN <<>> ELSE SubSeq(s, SetMin(ns), SetMax(ns))

\* Length of the longest run of characters satisfying P that starts at position p.
RunLen(s, p, P(_)) ==
    LET bad == { i \in p..Len(s) : ~P(s[i]) }
    IN  IF bad = {} THEN Len(s) - p + 1 ELSE SetMin(bad) - p

IsNonSpace(c) == ~IsSpace(c)

RECURSIVE split(_)
\* str.split() with no argument: the maximal runs of non-whitespace characters.
split(s) ==
    LET a == RunLen(s, 1, IsSpace)
        t == SubSeq(s, a + 1, Len(s))
        n == RunLen(t, 1, IsNonSpace)
    IN  IF t = <<>> THEN <<>>
        ELSE <<SubSeq(t, 1, n)>> \o split(SubSeq(t, n + 1, Len(t)))

RECURSIVE join(_, _)
\* sep.join(parts)
join(sep, parts) ==
    IF parts = <<>> THEN <<>>
    ELSE IF Len(parts) = 1 THEN parts[1]
    ELSE parts[1] \o sep \o join(sep, Tail(parts))

\* s[p:p+len(w)] == w
StartsAt(s, p, w) == p + Len(w) - 1 <= Len(s) /\ SubSeq(s, p, p + Len(w) - 1) = w

\* w in s
Contains(s, w) == \E p \in 1..(Len(s) + 1) : StartsAt(s, p, w)

RECURSIVE StrToInt(_)
\* int(digits)
StrToInt(d) ==
    IF d = <<>> THEN 0
    ELSE 10 * StrToInt(SubSeq(d, 1, Len(d) - 1)) + (IndexOf(d[Len(d)], Digits) - 1)

RECURSIVE StrLess(_, _)
\* a < b for Python strings (lexicographic by code point)
StrLess(a, b) ==
    IF b = <<>> THEN FALSE
    ELSE IF a = <<>> THEN TRUE
    ELSE IF Head(a) = Head(b) THEN StrLess(Tail(a), Tail(b))
    ELSE IndexOf(Head(a), AsciiOrder) < IndexOf(Head(b), AsciiOrder)

(* ------------------------------- values -------------------------------- *)

StrVal(s) == [k |-> "str", s |-> s]

NaN == [k |-> "nan", s |-> <<>>]

IntVal(d) == [k |-> "int", s |-> d]

EmptyStr == StrVal(<<>>)

\* pd.isna(v)
isna(v) == v.k = "nan"

\* bool(v): '' and 0 are falsy, NaN (a non-zero float) is truthy
truthy(v) ==
    CASE v.k = "str" -> v.s # <<>>
      [] v.k = "nan" -> TRUE
      [] v.k = "int" -> StrToInt(v.s) # 0

\* str(v)
str(v) == IF v.k = "nan" THEN <<"n","a","n">> ELSE v.s

IsString(v) == v.k = "str"

(* ------------------- __init__: the processor's tables ------------------- *)

\* self.output_columns
output_columns ==
    << <<"S","t","r","e","e","t"," ","A","d","d","r","e","s","s">>,
       <<"U","n","i","t"," ","#">>,
       <<"C","i","t","y">>,
       <<"S","t","a","t","e">>,
       <<"P","o","s","t","a","l"," ","C","o","d","e">>,
       <<"F","i","r","s","t"," ","N","a","m","e">>,
       <<"L","a","s","t"," ","N","a","m","e">>,
       <<"M","a","i","l","i","n","g"," ","A","d","d","r","e","s","s">>,
       <<"M","a","i","l","i","n","g"," ","U","n","i","t"," ","#">>,
       <<"M","a","i","l","i","n","g"," ","C","i","t","y">>,
       <<"M","a","i","l","i","n","g"," ","S","t","a","t","e">>,
       <<"M","a","i","l","i","n","g"," ","Z","i","p">>,
       <<"P","r","o","p","e","r","t","y"," ","T","y","p","e">>,
       <<"B","e","d","r","o","o","m","s">>,
       <<"T","o","t","a","l"," ","B","a","t","h","r","o","o","m","s">>,
       <<"B","u","i","l","d","i","n","g"," ","S","q","f","t">>,
       <<"L","o","t"," ","S","i","z","e"," ","S","q","f","t">>,
       <<"E","s","t","."," ","V","a","l","u","e">>,
       <<"P","h","o","n","e"," ","1">>,
       <<"P","h","o","n","e"," ","2">>,
       <<"P","h","o","n","e"," ","3">>,
       <<"P","h","o","n","e"," ","4">>,
       <<"P","h","o","n","e"," ","5">>,
       <<"E","m","a","i","l">>,
       <<"E","m","a","i","l"," ","2">>,
       <<"E","m","a","i","l"," ","3">>,
       <<"E","m","a","i","l"," ","4">>,
       <<"E","m","a","i","l"," ","5">> >>

\* self.column_mappings, in dictionary order; the pattern entries hold the regular
\* expressions as text.
column_mappings ==
    << [field |-> <<"S","t","r","e","e","t"," ","A","d","d","r","e","s","s">>,
         names |-> << <<"S","t","r","e","e","t"," ","A","d","d","r","e","s","s">>,
                     <<"A","d","d","r","e","s","s">>,
                     <<"P","r","o","p","e","r","t","y"," ","A","d","d","r","e","s","s">>,
                     <<"P","R","O","P","E","R","T","Y"," ","A","D","D","R","E","S","S">> >>],
       [field |-> <<"U","n","i","t"," ","#">>,
         names |-> << <<"U","n","i","t"," ","#">>,
                     <<"U","n","i","t">>,
                     <<"A","P","T">>,
                     <<"A","P","A","R","T","M","E","N","T">>,
                     <<"U","N","I","T"," ","N","U","M","B","E","R">> >>],
       [field |-> <<"C","i","t","y">>,
         names |-> << <<"C","i","t","y">>,
                     <<"P","r","o","p","e","r","t","y"," ","C","i","t","y">>,
                     <<"P","R","O","P","E","R","T","Y"," ","C","I","T","Y">>,
                     <<"C","I","T","Y">> >>],
       [field |-> <<"S","t","a","t","e">>,
         names |-> << <<"S","t","a","t","e">>,
                     <<"P","r","o","p","e","r","t","y"," ","S","t","a","t","e">>,
                     <<"P","R","O","P","E","R","T","Y"," ","S","T","A","T","E">>,
                     <<"S","T">>,
                     <<"S","T","A","T","E">> >>],
       [field |-> <<"P","o","s","t","a","l"," ","C","o","d","e">>,
         names |-> << <<"P","o","s","t","a","l"," ","C","o","d","e">>,
                     <<"Z","i","p">>,
                     <<"P","r","o","p","e","r","t","y"," ","Z","i","p">>,
                     <<"P","R","O","P","E","R","T","Y"," ","Z","I","P">>,
                     <<"Z","I","P">>,
                     <<"Z","I","P"," ","C","O","D","E">> >>],
       [field |-> <<"F","i","r","s","t"," ","N","a","m","e">>,
         names |-> << <<"F","i","r","s","t"," ","N","a","m","e">>,
                     <<"O","w","n","e","r"," ","1"," ","F","i","r","s","t"," ","N","a","m","e">>,
                     <<"O","W","N","E","R"," ","F","I","R","S","T"," ","N","A","M","E">>,
                     <<"F","I","R","S","T"," ","N","A","M","E">> >>],
       [field |-> <<"L","a","s","t"," ","N","a","m","e">>,
         names |-> << <<"L","a","s","t"," ","N","a","m","e">>,
                     <<"O","w","n","e","r"," ","1"," ","L","a","s","t"," ","N","a","m","e">>,
                     <<"O","W","N","E","R"," ","L","A","S","T"," ","N","A","M","E">>,
                     <<"L","A","S","T"," ","N","A","M","E">> >>],
       [field |-> <<"O","w","n","e","r"," ","F","i","r","s","t"," ","N","a","m","e"," ","P","a","t","t","e","r","n">>,
         names |-> << <<"O","w","n","e","r"," ","(","\\","d","+",")"," ","F","i","r","s","t"," ","N","a","m","e">>,
                     <<"O","w","n","e","r","(","\\","d","+",")"," ","F","i","r","s","t"," ","N","a","m","e">>,
                     <<"O","W","N","E","R","(","\\","d","+",")","_","F","I","R","S","T","_","N","A","M","E">> >>],
       [field |-> <<"O","w","n","e","r"," ","L","a","s","t"," ","N","a","m","e"," ","P","a","t","t","e","r","n">>,
         names |-> << <<"O","w","n","e","r"," ","(","\\","d","+",")"," ","L","a","s","t"," ","N","a","m","e">>,
                     <<"O","w","n","e","r","(","\\","d","+",")"," ","L","a","s","t"," ","N","a","m","e">>,
                     <<"O","W","N","E","R","(","\\","d","+",")","_","L","A","S","T","_","N","A","M","E">> >>],
       [field |-> <<"M","a","i","l","i","n","g"," ","A","d","d","r","e","s","s">>,
         names |-> << <<"M","a","i","l","i","n","g"," ","A","d","d","r","e","s","s">>,
                     <<"O","w","n","e","r"," ","M","a","i","l","i","n","g"," ","A","d","d","r","e","s","s">>,
                     <<"M","A","I","L","I","N","G"," ","A","D","D","R","E","S","S">>,
                     <<"M","A","I","L"," ","A","D","D","R","E","S","S">> >>],
       [field |-> <<"M","a","i","l","i","n","g"," ","U","n","i","t"," ","#">>,
         names |-> << <<"M","a","i","l","i","n","g"," ","U","n","i","t"," ","#">>,
                     <<"M","a","i","l","i","n","g"," ","U","n","i","t">>,
                     <<"M","A","I","L","I","N","G"," ","A","P","T">>,
                     <<"M","A","I","L"," ","U","N","I","T">> >>],
       [field |-> <<"M","a","i","l","i","n","g"," ","C","i","t","y">>,
         names |-> << <<"M","a","i","l","i","n","g"," ","C","i","t","y">>,
                     <<"O","w","n","e","r"," ","M","a","i","l","i","n","g"," ","C","i","t","y">>,
                     <<"M","A","I","L","I","N","G"," ","C","I","T","Y">>,
                     <<"M","A","I","L"," ","C","I","T","Y">> >>],
       [field |-> <<"M","a","i","l","i","n","g"," ","S","t","a","t","e">>,
         names |-> << <<"M","a","i","l","i","n","g"," ","S","t","a","t","e">>,
                     <<"O","w","n","e","r"," ","M","a","i","l","i","n","g"," ","S","t","a","t","e">>,
                     <<"M","A","I","L","I","N","G"," ","S","T","A","T","E">>,
                     <<"M","A","I","L"," ","S","T","A","T","E">> >>],
       [field |-> <<"M","a","i","l","i","n","g"," ","Z","i","p">>,
         names |-> << <<"M","a","i","l","i","n","g"," ","Z","i","p">>,
                     <<"O","w","n","e","r"," ","M","a","i","l","i","n","g"," ","Z","i","p">>,
                     <<"M","A","I","L","I","N","G"," ","Z","I","P">>,
                     <<"M","A","I","L"," ","Z","I","P">> >>],
       [field |-> <<"P","r","o","p","e","r","t","y"," ","T","y","p","e">>,
         names |-> << <<"P","r","o","p","e","r","t","y"," ","T","y","p","e">>,
                     <<"L","a","n","d"," ","U","s","e">>,
                     <<"P","R","O","P","E","R","T","Y"," ","T","Y","P","E">>,
                     <<"T","Y","P","E">> >>],
       [field |-> <<"B","e","d","r","o","o","m","s">>,
         names |-> << <<"B","e","d","r","o","o","m","s">>,
                     <<"B","e","d","r","o","o","m"," ","C","o","u","n","t">>,
                     <<"B","E","D","R","O","O","M","S">>,
                     <<"B","E","D">>,
                     <<"B","R">> >>],
       [field |-> <<"T","o","t","a","l"," ","B","a","t","h","r","o","o","m","s">>,
         names |-> << <<"T","o","t","a","l"," ","B","a","t","h","r","o","o","m","s">>,
                     <<"B","a","t","h","r","o","o","m"," ","C","o","u","n","t">>,
                     <<"B","a","t","h","r","o","o","m","s">>,
                     <<"B","A","T","H","R","O","O","M","S">>,
                     <<"B","A","T","H">>,
                     <<"B","A">> >>],
       [field |-> <<"B","u","i","l","d","i","n","g"," ","S","q","f","t">>,
         names |-> << <<"B","u","i","l","d","i","n","g"," ","S","q","f","t">>,
                     <<"L","i","v","i","n","g"," ","S","q","u","a","r","e"," ","F","e","e","t">>,
                     <<"T","o","t","a","l"," ","B","u","i","l","d","i","n","g"," ","A","r","e","a"," ","S","q","u","a","r","e"," ","F","e","e","t">>,
                     <<"B","U","I","L","D","I","N","G"," ","S","Q","F","T">>,
                     <<"S","Q"," ","F","T">>,
                     <<"S","Q","F","T">> >>],
       [field |-> <<"L","o","t"," ","S","i","z","e"," ","S","q","f","t">>,
         names |-> << <<"L","o","t"," ","S","i","z","e"," ","S","q","f","t">>,
                     <<"L","o","t"," ","(","S","q","u","a","r","e"," ","F","e","e","t",")">>,
                     <<"L","o","t"," ","S","i","z","e"," ","S","q","u","a","r","e"," ","F","e","e","t">>,
                     <<"L","O","T"," ","S","I","Z","E">>,
                     <<"L","O","T"," ","S","Q","F","T">> >>],
       [field |-> <<"E","s","t","."," ","V","a","l","u","e">>,
         names |-> << <<"E","s","t","."," ","V","a","l","u","e">>,
                     <<"T","o","t","a","l"," ","A","s","s","e","s","s","e","d"," ","V","a","l","u","e">>,
                     <<"A","S","S","E","S","S","E","D"," ","V","A","L","U","E">>,
                     <<"V","A","L","U","E">> >>],
       [field |-> <<"P","h","o","n","e"," ","P","a","t","t","e","r","n","s">>,
         names |-> << <<"P","h","o","n","e"," ","(","\\","d","+",")">>,
                     <<"P","h","o","n","e","(","\\","d","+",")">>,
                     <<"C","e","l","l"," ","(","\\","d","+",")">>,
                     <<"C","e","l","l","(","\\","d","+",")">>,
                     <<"L","a","n","d","l","i","n","e"," ","(","\\","d","+",")">>,
                     <<"L","a","n","d","l","i","n","e","(","\\","d","+",")">>,
                     <<"P","H","O","N","E","(","\\","d","+",")">>,
                     <<"C","E","L","L","(","\\","d","+",")">> >>],
       [field |-> <<"E","m","a","i","l"," ","P","a","t","t","e","r","n","s">>,
         names |-> << <<"E","m","a","i","l"," ","(","\\","d","+",")">>,
                     <<"E","m","a","i","l","(","\\","d","+",")">>,
                     <<"E","m","a","i","l","(","\\","d","+",")","_","x">>,
                     <<"E","M","A","I","L","(","\\","d","+",")">> >>] >>

\* self.column_mappings.get(key, [])
column_mappings_get(key) ==
    LET hit == { i \in 1..Len(column_mappings) : column_mappings[i].field = key }
    IN  IF hit = {} THEN <<>> ELSE column_mappings[CHOOSE i \in hit : TRUE].names

\* s.endswith(w)
EndsWith(s, w) == Len(w) <= Len(s) /\ SubSeq(s, Len(s) - Len(w) + 1, Len(s)) = w

\* The text of the one capture group every pattern of the tables has.
DigitGroup == <<"(","\\","d","+",")">>

\* A pattern of the tables read as: literal prefix, (\d+), literal suffix.
ParsePattern(text) ==
    LET p == CHOOSE p \in 1..Len(text) : StartsAt(text, p, DigitGroup)
    IN  [pre  |-> SubSeq(text, 1, p - 1),
         post |-> SubSeq(text, p + Len(DigitGroup), Len(text)),
         text |-> text]

ParsePatterns(texts) == [i \in 1..Len(texts) |-> ParsePattern(texts[i])]

phone_patterns == ParsePatterns(column_mappings_get(<<"P","h","o","n","e"," ","P","a","t","t","e","r","n","s">>))

email_patterns == ParsePatterns(column_mappings_get(<<"E","m","a","i","l"," ","P","a","t","t","e","r","n","s">>))

owner_first_patterns == ParsePatterns(column_mappings_get(<<"O","w","n","e","r"," ","F","i","r","s","t"," ","N","a","m","e"," ","P","a","t","t","e","r","n">>))

owner_last_patterns == ParsePatterns(column_mappings_get(<<"O","w","n","e","r"," ","L","a","s","t"," ","N","a","m","e"," ","P","a","t","t","e","r","n">>))

(* ------------------------------ dictionaries --------------------------- *)

EmptyMap == [x \in {} |-> <<>>]

\* d[k] = v
Put(d, k, v) == [x \in (DOMAIN d) \cup {k} |-> IF x = k THEN v ELSE d[x]]

\* d.update(e)
Update(d, e) == [x \in (DOMAIN d) \cup (DOMAIN e) |-> IF x \in DOMAIN e THEN e[x] ELSE d[x]]

(* ----------------------------- Column Mapper --------------------------- *)

\* re.match(pattern, col): <<group 1>> when the pattern matches at the start of col,
\* <<>> (None) otherwise.  The digits are taken greedily; no suffix of the tables
\* starts with a digit, so backtracking never finds another match.
re_match(pattern, col) ==
    LET n == Len(pattern.pre)
        d == RunLen(col, n + 1, IsDigit)
    IN  IF StartsAt(col, 1, pattern.pre) /\ d >= 1 /\ StartsAt(col, n + d + 1, pattern.post)
        THEN <<SubSeq(col, n + 1, n + d)>>
        ELSE <<>>

\* _find_matching_column: the first of possible_names that is a column, <<>> for None.
_find_matching_column(columns, possible_names) ==
    LET hit == { i \in 1..Len(possible_names) : possible_names[i] \in SeqToSet(columns) }
    IN  IF hit = {} THEN <<>> ELSE <<possible_names[SetMin(hit)]>>

\* The key with the default ordinal of line 168 whatever group the pattern captured
PatternKey_default_ordinal(pattern, num) ==
    IF Contains(lower(pattern.text), <<"e","m","a","i","l">>)
    THEN <<"E","m","a","i","l"," ","1">>
    ELSE <<"P","h","o","n","e"," ","1">>

\* The key _find_pattern_columns gives a column matched by `pattern` with group `num`.
PatternKey(pattern, num) ==
    LET pl == lower(pattern.text)
    IN  CASE Contains(pl, <<"p","h","o","n","e">>) \/ Contains(pl, <<"c","e","l","l">>)
               \/ Contains(pl, <<"l","a","n","d","l","i","n","e">>)
                -> <<"P","h","o","n","e"," ">> \o num
          [] Contains(pl, <<"e","m","a","i","l">>)
                -> <<"E","m","a","i","l"," ">> \o num

\* The index of the first pattern that matches col, 0 when none does.
FirstMatch(patterns, col) ==
    LET hit == { j \in 1..Len(patterns) : re_match(patterns[j], col) # <<>> }
    IN  IF hit = {} THEN 0 ELSE SetMin(hit)

RECURSIVE FindPatternFrom(_, _, _, _)
FindPatternFrom(columns, patterns, i, matches) ==
    IF i > Len(columns) THEN matches
    ELSE LET col == columns[i]
             j   == FirstMatch(patterns, col)
         IN  IF j = 0 THEN FindPatternFrom(columns, patterns, i + 1, matches)
             ELSE FindPatternFrom(columns, patterns, i + 1,
                      Put(matches, PatternKey(patterns[j], re_match(patterns[j], col)[1]), col))

\* _find_pattern_columns: columns in table order, the first matching pattern names the
\* key, a later column with the same key overwrites an earlier one.
_find_pattern_columns(columns, patterns) == FindPatternFrom(columns, patterns, 1, EmptyMap)

RECURSIVE DirectFrom(_, _, _)
DirectFrom(columns, i, mapping) ==
    IF i > Len(column_mappings) THEN mapping
    ELSE LET e == column_mappings[i]
             m == _find_matching_column(columns, e.names)
         IN  IF ~EndsWith(e.field, <<"P","a","t","t","e","r","n">>) /\ m # <<>>
             THEN DirectFrom(columns, i + 1, Put(mapping, e.field, m[1]))
             ELSE DirectFrom(columns, i + 1, mapping)

RECURSIVE OwnerFrom(_, _, _, _)
\* owner_columns restricted to one role: ordinal -> the last column (in table order)
\* whose first matching pattern captures that ordinal.
OwnerFrom(columns, patterns, i, found) ==
    IF i > Len(columns) THEN found
    ELSE LET j == FirstMatch(patterns, columns[i])
         IN  IF j = 0 THEN OwnerFrom(columns, patterns, i + 1, found)
             ELSE OwnerFrom(columns, patterns, i + 1,
                      Put(found, StrToInt(re_match(patterns[j], columns[i])[1]), columns[i]))

\* Lines 403-420: ordinal -> [first, last], each <<>> or <<column>>, from the first
\* name columns f and the last name columns l
OwnerPairs(f, l) ==
    [n \in (DOMAIN f) \cup (DOMAIN l) |->
        [first |-> IF n \in DOMAIN f THEN <<f[n]>> ELSE <<>>,
         last  |-> IF n \in DOMAIN l THEN <<l[n]>> ELSE <<>>]]

\* owner_columns
owner_columns(columns) ==
    OwnerPairs(OwnerFrom(columns, owner_first_patterns, 1, EmptyMap),
               OwnerFrom(columns, owner_last_patterns, 1, EmptyMap))

F_FirstName == output_columns[6]

F_LastName == output_columns[7]

\* The owner of the highest ordinal with both columns taken as the primary owner
PrimaryOwner_last_owner(mapping, owners) ==
    IF { n \in DOMAIN owners : owners[n].first # <<>> /\ owners[n].last # <<>> } = {}
    THEN mapping
    ELSE Put(Put(mapping, F_FirstName,
                 owners[SetMax({ n \in DOMAIN owners :
                                   owners[n].first # <<>> /\ owners[n].last # <<>> })].first[1]),
             F_LastName,
             owners[SetMax({ n \in DOMAIN owners :
                               owners[n].first # <<>> /\ owners[n].last # <<>> })].last[1])

\* Lines 422-425: owner 1 is the primary owner when both of its columns are found
PrimaryOwner(mapping, owners) ==
    IF 1 \in DOMAIN owners /\ owners[1].first # <<>> /\ owners[1].last # <<>>
    THEN Put(Put(mapping, F_FirstName, owners[1].first[1]), F_LastName, owners[1].last[1])
    ELSE mapping

\* _create_column_mapping: the direct aliases, then the phone and the email patterns,
\* then the owner columns
_create_column_mapping(columns) ==
    PrimaryOwner(Update(Update(DirectFrom(columns, 1, EmptyMap),
                               _find_pattern_columns(columns, phone_patterns)),
                        _find_pattern_columns(columns, email_patterns)),
                 owner_columns(columns))

(* ---------------------------- Record Normalizer ------------------------ *)

F_StreetAddress == output_columns[1]

F_Unit == output_columns[2]

F_City == output_columns[3]

F_State == output_columns[4]

F_PostalCode == output_columns[5]

F_MailingAddress == output_columns[8]

F_MailingUnit == output_columns[9]

\* f'Phone {i}'
PhoneField(i) == <<"P","h","o","n","e"," ">> \o <<Digits[i + 1]>>

\* 'Email' for slot 1, f'Email {i}' for the others
EmailField(i) ==
    IF i = 1 THEN <<"E","m","a","i","l">>
    ELSE <<"E","m","a","i","l"," ">> \o <<Digits[i + 1]>>

\* _split_name with the last name taken from the last token alone
_split_name_last_token(full_name) ==
    IF ~truthy(full_name) \/ isna(full_name)
    THEN [raised |-> FALSE, first |-> <<>>, last |-> <<>>]
    ELSE IF full_name.k # "str"
    THEN [raised |-> TRUE, first |-> <<>>, last |-> <<>>]
    ELSE LET parts == split(strip(full_name.s))
         IN  IF Len(parts) = 1
             THEN [raised |-> FALSE, first |-> parts[1], last |-> <<>>]
             ELSE IF Len(parts) = 0
             THEN [raised |-> TRUE, first |-> <<>>, last |-> <<>>]
             ELSE [raised |-> FALSE, first |-> parts[1], last |-> parts[Len(parts)]]

\* _split_name: [raised, first, last].  A string without any token (whitespace only)
\* reaches parts[0] on an empty list; a truthy non-string has no strip().
_split_name(full_name) ==
    IF ~truthy(full_name) \/ isna(full_name)
    THEN [raised |-> FALSE, first |-> <<>>, last |-> <<>>]
    ELSE IF full_name.k # "str"
    THEN [raised |-> TRUE, first |-> <<>>, last |-> <<>>]
    ELSE LET parts == split(strip(full_name.s))
         IN  IF Len(parts) = 1
             THEN [raised |-> FALSE, first |-> parts[1], last |-> <<>>]
             ELSE IF Len(parts) = 2
             THEN [raised |-> FALSE, first |-> parts[1], last |-> parts[2]]
             ELSE IF Len(parts) = 0
             THEN [raised |-> TRUE, first |-> <<>>, last |-> <<>>]
             ELSE [raised |-> FALSE, first |-> parts[1], last |-> join(<<" ">>, Tail(parts))]

\* The alternatives of the first unit pattern, in order.
Designators ==
    << <<"#">>, <<"U","N","I","T">>, <<"A","P","T">>,
       <<"A","P","A","R","T","M","E","N","T">>, <<"S","T","E">>, <<"S","U","I","T","E">> >>

\* The alternatives as re.IGNORECASE compares them
DesignatorsLower == [i \in 1..Len(Designators) |-> lower(Designators[i])]

NoMatch == [ok |-> FALSE, gs |-> 0, end |-> 0]

\* s[p:p+len(w)].lower() == w
StartsAtLower(s, p, w) ==
    p + Len(w) - 1 <= Len(s) /\ lower(SubSeq(s, p, p + Len(w) - 1)) = w

\* (?:#|UNIT|APT|APARTMENT|STE|SUITE)\s*([A-Za-z0-9-]+) with re.IGNORECASE, tried at
\* position p: gs is where group 1 starts, end where the match ends.
UnitMatch1(s, p) ==
    LET alt(i) == LET q  == p + Len(Designators[i])
                      sp == RunLen(s, q, IsSpace)
                      t  == RunLen(s, q + sp, IsTokenCh)
                  IN  IF StartsAtLower(s, p, DesignatorsLower[i]) /\ t >= 1
                      THEN [ok |-> TRUE, gs |-> q + sp, end |-> q + sp + t - 1]
                      ELSE NoMatch
        hit == { i \in 1..Len(Designators) : alt(i).ok }
    IN  IF hit = {} THEN NoMatch ELSE alt(SetMin(hit))

\* \s+([A-Za-z0-9-]+)$ tried at position p; $ is the end of the string or the place
\* before a final newline.
UnitMatch2(s, p) ==
    LET sp == RunLen(s, p, IsSpace)
        t  == RunLen(s, p + sp, IsTokenCh)
        e  == p + sp + t - 1
    IN  IF sp >= 1 /\ t >= 1 /\ (e = Len(s) \/ (e = Len(s) - 1 /\ s[Len(s)] = "\n"))
        THEN [ok |-> TRUE, gs |-> p + sp, end |-> e]
        ELSE NoMatch

UnitMatch(k, s, p) == IF k = 1 THEN UnitMatch1(s, p) ELSE UnitMatch2(s, p)

\* re.search(unit_patterns[k], s): the leftmost match
UnitSearch(k, s) ==
    LET m == [p \in 1..Len(s) |-> UnitMatch(k, s, p)]
        hit == { p \in 1..Len(s) : m[p].ok }
    IN  IF hit = {} THEN NoMatch ELSE m[SetMin(hit)]

RECURSIVE UnitSubFrom(_, _, _)
\* re.sub(unit_patterns[k], '', s): every non-overlapping match removed, left to right
UnitSubFrom(k, s, i) ==
    IF i > Len(s) THEN <<>>
    ELSE LET m == UnitMatch(k, s, i)
         IN  IF m.ok THEN UnitSubFrom(k, s, m.end + 1)
             ELSE <<s[i]>> \o UnitSubFrom(k, s, i + 1)

\* Lines 223-229: the first pattern that is found gives the unit (its group 1) and is
\* removed from the address; m[k] is the search of pattern k
UnitOfFirstMatch(address, m) ==
    LET hit == { k \in DOMAIN m : m[k].ok }
        k   == SetMin(hit)
    IN  IF hit = {}
        THEN [raised |-> FALSE, address |-> address, unit |-> EmptyStr]
        ELSE [raised |-> FALSE, address |-> StrVal(strip(UnitSubFrom(k, address.s, 1))),
              unit |-> StrVal(SubSeq(address.s, m[k].gs, m[k].end))]

\* _extract_unit: [raised, address, unit], address and unit being cell values.
_extract_unit(address) ==
    IF ~truthy(address) \/ isna(address)
    THEN [raised |-> FALSE, address |-> EmptyStr, unit |-> EmptyStr]
    ELSE IF address.k # "str"
    THEN [raised |-> TRUE, address |-> address, unit |-> EmptyStr]
    ELSE UnitOfFirstMatch(address, [k \in 1..2 |-> UnitSearch(k, address.s)])

\* row.get(field, '')
RowGet(row, field) == IF field \in DOMAIN row THEN row[field] ELSE EmptyStr

\* hashlib.md5(...).hexdigest(): a digest without collisions, represented by its argument
md5(key_string) == key_string

\* The parts of one group of key fields: str(), drop the empty ones, then lower and strip.
KeyParts(row, fields) ==
    LET raw  == [i \in 1..Len(fields) |-> str(RowGet(row, fields[i]))]
        nonempty == SelectSeq(raw, LAMBDA part : part # <<>>)
    IN  [i \in 1..Len(nonempty) |-> strip(lower(nonempty[i]))]

\* _generate_unique_key
_generate_unique_key(row) ==
    LET key_parts == KeyParts(row, <<F_StreetAddress, F_City, F_State, F_PostalCode>>)
                     \o KeyParts(row, <<F_FirstName, F_LastName>>)
    IN  md5(join(<<"|">>, key_parts))

\* range(1, 6): the phone slots Phone 1..5
PhoneSlots == 5

\* the email slots Email, Email 2..5
EmailSlots == 5

\* full_name_fields
full_name_fields ==
    << <<"O","w","n","e","r"," ","N","a","m","e">>, <<"O","w","n","e","r">>,
       <<"F","u","l","l"," ","N","a","m","e">>, <<"N","a","m","e">> >>

Raised(row) == [raised |-> TRUE, row |-> row]

Returned(row) == [raised |-> FALSE, row |-> row]

\* Lines 272-277: every output column starts as '', a mapped column's cell is copied as
\* it is
DirectCopy(input_row, col_map) ==
    [f \in SeqToSet(output_columns) |->
        IF f \in DOMAIN col_map /\ col_map[f] \in DOMAIN input_row
        THEN input_row[col_map[f]]
        ELSE EmptyStr]

\* Lines 286-288: the two parts of the split name are stored
NameAssign(out, r) ==
    IF r.raised THEN Raised(out)
    ELSE Returned([out EXCEPT ![F_FirstName] = StrVal(r.first), ![F_LastName] = StrVal(r.last)])

\* Lines 281-290: split the first full-name field that is present and not NaN, when the
\* mapping has neither First Name nor Last Name
NameStep(out, input_row, col_map) ==
    LET hit == { i \in 1..Len(full_name_fields) :
                    /\ full_name_fields[i] \in DOMAIN input_row
                    /\ ~isna(input_row[full_name_fields[i]]) }
    IN  IF F_FirstName \in DOMAIN col_map \/ F_LastName \in DOMAIN col_map \/ hit = {}
        THEN Returned(out)
        ELSE NameAssign(out, _split_name(input_row[full_name_fields[SetMin(hit)]]))

\* Lines 294-297 and 301-304: a unit that was found is stored, with the address it
\* was taken from
UnitAssign(out, addr_field, unit_field, r) ==
    IF r.raised THEN Raised(out)
    ELSE IF truthy(r.unit)
    THEN Returned([out EXCEPT ![addr_field] = r.address, ![unit_field] = r.unit])
    ELSE Returned(out)

\* Lines 292-304: extract the unit from an address whose unit slot is empty
UnitStep(out, addr_field, unit_field) ==
    IF ~truthy(out[unit_field]) /\ truthy(out[addr_field])
    THEN UnitAssign(out, addr_field, unit_field, _extract_unit(out[addr_field]))
    ELSE Returned(out)

RECURSIVE SortInts(_)
\* sorted() of a set of integers
SortInts(S) == IF S = {} THEN <<>> ELSE <<SetMin(S)>> \o SortInts(S \ {SetMin(S)})

\* Lines 307-313: the ordinals 1..5 whose key is mapped and whose cell is truthy and
\* not NaN
phone_indexes(input_row, col_map) ==
    { i \in 1..PhoneSlots :
        /\ PhoneField(i) \in DOMAIN col_map
        /\ LET phone_val == RowGet(input_row, col_map[PhoneField(i)])
           IN  truthy(phone_val) /\ ~isna(phone_val) }

\* Lines 306-322: reset Phone 1..5, then fill them in ascending order of ordinal with
\* str(value).strip()
PhoneStep(out, input_row, col_map) ==
    LET order == SortInts(phone_indexes(input_row, col_map))
        slot(f) == CHOOSE i \in 1..PhoneSlots : PhoneField(i) = f
    IN  [f \in DOMAIN out |->
            IF f \in { PhoneField(i) : i \in 1..PhoneSlots }
            THEN IF slot(f) <= Len(order)
                 THEN StrVal(strip(str(RowGet(input_row, col_map[PhoneField(order[slot(f)])]))))
                 ELSE EmptyStr
            ELSE out[f]]

\* Lines 330-335: the ordinal of a mapping key that starts with Email
EmailIdx(key) ==
    LET pat == <<"E","m","a","i","l"," ">>
        hit == { p \in 1..Len(key) :
                    StartsAt(key, p, pat) /\ RunLen(key, p + Len(pat), IsDigit) >= 1 }
    IN  IF key = <<"E","m","a","i","l">> \/ hit = {} THEN 1
        ELSE LET p == SetMin(hit)
             IN  StrToInt(SubSeq(key, p + Len(pat),
                                 p + Len(pat) + RunLen(key, p + Len(pat), IsDigit) - 1))

\* Lines 326-329: the mapping keys that start with Email and whose cell is truthy and
\* not NaN
email_keys(input_row, col_map) ==
    { key \in DOMAIN col_map :
        /\ StartsAt(key, 1, <<"E","m","a","i","l">>)
        /\ LET email_val == RowGet(input_row, col_map[key])
           IN  truthy(email_val) /\ ~isna(email_val) }

\* (idx, email) < (idx2, email2) as Python orders tuples
EntryLess(a, b) == a.idx < b.idx \/ (a.idx = b.idx /\ StrLess(a.email, b.email))

RECURSIVE SortEntries(_, _, _)
\* sorted(email_indexes): the entries of the keys K, least first
SortEntries(K, input_row, col_map) ==
    LET entry(key) == [idx   |-> EmailIdx(key),
                       email |-> strip(str(RowGet(input_row, col_map[key])))]
    IN  IF K = {} THEN <<>>
        ELSE LET k == CHOOSE k \in K : \A j \in K : ~EntryLess(entry(j), entry(k))
             IN  <<entry(k)>> \o SortEntries(K \ {k}, input_row, col_map)

\* Lines 324-349: reset the email slots, then fill them in ascending order of ordinal
EmailStep(out, input_row, col_map) ==
    LET order == SortEntries(email_keys(input_row, col_map), input_row, col_map)
        slot(f) == CHOOSE i \in 1..EmailSlots : EmailField(i) = f
    IN  [f \in DOMAIN out |->
            IF f \in { EmailField(i) : i \in 1..EmailSlots }
            THEN IF slot(f) <= Len(order) THEN StrVal(order[slot(f)].email) ELSE EmptyStr
            ELSE out[f]]

\* The unit step after the steps that gave s, skipped when one of them raised
ThenUnit(s, addr_field, unit_field) ==
    IF s.raised THEN s ELSE UnitStep(s.row, addr_field, unit_field)

\* The phone and the email step after the steps that gave s, skipped when one of them
\* raised
ThenContacts(s, input_row, col_map) ==
    IF s.raised THEN s
    ELSE Returned(EmailStep(PhoneStep(s.row, input_row, col_map), input_row, col_map))

\* _map_input_to_output: [raised, row]; raised when a step raises, and then no record
\* is returned
_map_input_to_output(input_row, col_map) ==
    ThenContacts(
        ThenUnit(
            ThenUnit(NameStep(DirectCopy(input_row, col_map), input_row, col_map),
                     F_StreetAddress, F_Unit),
            F_MailingAddress, F_MailingUnit),
        input_row, col_map)

\* _has_contact_info
_has_contact_info(row) ==
    LET has_phone   == \E i \in 1..PhoneSlots : truthy(RowGet(row, PhoneField(i)))
        has_email   == \E i \in 1..EmailSlots : truthy(RowGet(row, EmailField(i)))
        has_mailing == truthy(RowGet(row, F_MailingAddress))
    IN  has_phone \/ has_email \/ has_mailing

(* ------------------------------ data frames ---------------------------- *)

\* A data frame is [columns, rows]: the column labels in order, and the rows as
\* functions from the column labels to cell values.

\* pd.DataFrame(columns=cols): no rows
EmptyFrame(cols) == [columns |-> cols, rows |-> <<>>]

\* pd.DataFrame(records) for a list of dictionaries with the keys of output_row, which
\* the dictionary comprehension of line 272 inserts in the order of output_columns;
\* an empty list gives a frame without columns
DataFrame(records) ==
    IF records = <<>> THEN EmptyFrame(<<>>)
    ELSE [columns |-> SelectSeq(output_columns, LAMBDA c : c \in DOMAIN records[1]),
          rows    |-> records]

\* df.empty
IsEmptyFrame(df) == df.columns = <<>> \/ df.rows = <<>>

\* The columns of b that a lacks, appended to a
UnionColumns(a, b) == a \o SelectSeq(b, LAMBDA c : c \notin SeqToSet(a))

\* A row widened to cols, NaN where the row has no such column
Reindex(row, cols) == [c \in SeqToSet(cols) |-> IF c \in DOMAIN row THEN row[c] ELSE NaN]

RECURSIVE ConcatFrom(_, _, _)
ConcatFrom(dataframes, i, acc) ==
    IF i > Len(dataframes) THEN acc
    ELSE LET cols == UnionColumns(acc.columns, dataframes[i].columns)
             all  == acc.rows \o dataframes[i].rows
         IN  ConcatFrom(dataframes, i + 1,
                 [columns |-> cols, rows |-> [j \in 1..Len(all) |-> Reindex(all[j], cols)]])

\* pd.concat(dataframes, ignore_index=True)
concat(dataframes) == ConcatFrom(dataframes, 1, EmptyFrame(<<>>))

UniqueIdColumn == <<"_","u","n","i","q","u","e","_","i","d">>

\* Lines 597-600: the column _unique_id, computed from each row
WithUniqueId(df) ==
    [columns |-> Append(df.columns, UniqueIdColumn),
     rows    |-> [j \in 1..Len(df.rows) |->
                    [c \in (DOMAIN df.rows[j]) \cup {UniqueIdColumn} |->
                        IF c = UniqueIdColumn THEN StrVal(_generate_unique_key(df.rows[j]))
                        ELSE df.rows[j][c]]]]

\* The positions drop_duplicates(subset=['_unique_id'], keep='first') keeps
KeptPositions(df) ==
    { j \in 1..Len(df.rows) :
        \A i \in 1..(j - 1) : df.rows[i][UniqueIdColumn] # df.rows[j][UniqueIdColumn] }

\* drop_duplicates with the kept row's empty cells filled from its later duplicates
drop_duplicates_merged(df) ==
    LET keep == SortInts(KeptPositions(df))
        dups(j, c) == { i \in (j + 1)..Len(df.rows) :
                          /\ df.rows[i][UniqueIdColumn] = df.rows[j][UniqueIdColumn]
                          /\ df.rows[i][c] # EmptyStr }
        merged(j) == [c \in DOMAIN df.rows[j] |->
                        IF df.rows[j][c] = EmptyStr /\ dups(j, c) # {}
                        THEN df.rows[SetMin(dups(j, c))][c]
                        ELSE df.rows[j][c]]
    IN  [columns |-> df.columns, rows |-> [j \in 1..Len(keep) |-> merged(keep[j])]]

\* df.drop_duplicates(subset=['_unique_id'], keep='first')
drop_duplicates(df) ==
    LET keep == SortInts(KeptPositions(df))
    IN  [columns |-> df.columns, rows |-> [j \in 1..Len(keep) |-> df.rows[keep[j]]]]

\* df.drop(columns=[col])
drop_column(df, col) ==
    LET cols == SelectSeq(df.columns, LAMBDA c : c # col)
    IN  [columns |-> cols,
         rows    |-> [j \in 1..Len(df.rows) |-> [c \in SeqToSet(cols) |-> df.rows[j][c]]]]

\* Lines 611-613: every output column the frame lacks is added, filled with ''
AddMissingColumns(df) ==
    LET cols == UnionColumns(df.columns, output_columns)
    IN  [columns |-> cols,
         rows    |-> [j \in 1..Len(df.rows) |->
                        [c \in SeqToSet(cols) |->
                            IF c \in DOMAIN df.rows[j] THEN df.rows[j][c] ELSE EmptyStr]]]

\* df[cols]
SelectColumns(df, cols) ==
    [columns |-> cols,
     rows    |-> [j \in 1..Len(df.rows) |-> [c \in SeqToSet(cols) |-> df.rows[j][c]]]]

\* _combine_and_deduplicate without lines 605-616: the temporary column stays and the
\* columns are not put in the order of output_columns
_combine_and_deduplicate_unordered(dataframes) ==
    IF dataframes = <<>> THEN EmptyFrame(output_columns)
    ELSE drop_duplicates(WithUniqueId(concat(dataframes)))

\* _combine_and_deduplicate
_combine_and_deduplicate(dataframes) ==
    IF dataframes = <<>> THEN EmptyFrame(output_columns)
    ELSE LET combined_df     == WithUniqueId(concat(dataframes))
             deduplicated_df == drop_column(drop_duplicates(combined_df), UniqueIdColumn)
         IN  SelectColumns(AddMissingColumns(deduplicated_df), output_columns)

(* -------------------------------- bounds ------------------------------- *)

\* Files in one call of process_memory_files
MaxFiles == 2

\* Rows read in one run, over all its files
MaxRows == 3

\* Columns of the table in the row-level specification
MaxCols == 3

(* -------------------------------- inputs ------------------------------- *)

c_Address == <<"A","d","d","r","e","s","s">>

c_PropertyAddress == <<"P","r","o","p","e","r","t","y"," ","A","d","d","r","e","s","s">>

c_City == <<"C","i","t","y">>

c_State == <<"S","t","a","t","e">>

c_Zip == <<"Z","i","p">>

c_Owner1First == <<"O","w","n","e","r"," ","1"," ","F","i","r","s","t"," ","N","a","m","e">>

c_Owner1Last == <<"O","w","n","e","r"," ","1"," ","L","a","s","t"," ","N","a","m","e">>

c_FirstName == <<"F","i","r","s","t"," ","N","a","m","e">>

c_LastName == <<"L","a","s","t"," ","N","a","m","e">>

c_Cell1 == <<"C","e","l","l"," ","1">>

c_MailingAddress == <<"M","a","i","l","i","n","g"," ","A","d","d","r","e","s","s">>

c_Name == <<"N","a","m","e">>

c_OwnerName == <<"O","w","n","e","r"," ","N","a","m","e">>

c_Phone(i) == <<"P","h","o","n","e"," ">> \o <<Digits[i + 1]>>

c_Email(i) == <<"E","m","a","i","l"," ">> \o <<Digits[i + 1]>>

v_Elm == StrVal(<<"1"," ","E","l","m"," ","S","t">>)

v_Springfield == StrVal(<<"S","p","r","i","n","g","f","i","e","l","d">>)

v_IL == StrVal(<<"I","L">>)

v_il == StrVal(<<"i","l">>)

v_Zip == StrVal(<<"6","2","7","0","1">>)

v_Jane == StrVal(<<"J","a","n","e">>)

v_Doe == StrVal(<<"D","o","e">>)

v_5551000 == StrVal(<<"5","5","5","-","1","0","0","0">>)

v_5552000 == StrVal(<<"5","5","5","-","2","0","0","0">>)

v_Blank == StrVal(<<" ">>)

\* The two tables of the end-to-end scenario
TableA_columns == <<c_Address, c_City, c_State, c_Zip, c_Owner1First, c_Owner1Last, c_Phone(1)>>

TableB_columns == <<c_PropertyAddress, c_City, c_State, c_Zip, c_FirstName, c_LastName, c_Cell1>>

Scenario_values == <<v_Elm, v_Springfield, v_IL, v_Zip, v_Jane, v_Doe, v_5551000>>

\* The row of a table: its cells by column label
RowOf(columns, values) == [c \in SeqToSet(columns) |-> values[IndexOf(c, columns)]]

\* The headers the files of a run are drawn from
Headers ==
    { TableA_columns, TableB_columns,
      <<c_Address, c_City, c_Phone(1)>>,
      <<c_Address, c_Phone(1)>>,
      <<c_Address, c_MailingAddress>>,
      <<c_Address, c_State, c_Phone(1)>>,
      <<c_Name, c_Phone(1)>> }

\* The rows a file with the given header is drawn from: the scenario's row, rows that
\* repeat its address and owner with other contact cells or another letter case,
\* rows with a missing or blank cell, rows with the same text in another identity field,
\* a row whose full name has no token
InputRows(columns) ==
    CASE columns = TableA_columns ->
            { RowOf(columns, Scenario_values),
              RowOf(columns, [Scenario_values EXCEPT ![7] = NaN]) }
      [] columns = TableB_columns ->
            { RowOf(columns, Scenario_values),
              RowOf(columns, [Scenario_values EXCEPT ![3] = v_il, ![7] = v_5552000]) }
      [] columns = <<c_Address, c_City, c_Phone(1)>> ->
            { RowOf(columns, <<v_Elm, v_Blank, v_5551000>>),
              RowOf(columns, <<v_Elm, v_IL, v_5552000>>) }
      [] columns = <<c_Address, c_Phone(1)>> ->
            { RowOf(columns, <<v_Elm, v_5551000>>) }
      [] columns = <<c_Address, c_MailingAddress>> ->
            { RowOf(columns, <<v_Elm, NaN>>) }
      [] columns = <<c_Address, c_State, c_Phone(1)>> ->
            { RowOf(columns, <<v_Elm, v_IL, v_5551000>>) }
      [] columns = <<c_Name, c_Phone(1)>> ->
            { RowOf(columns, <<v_Jane, v_5551000>>),
              RowOf(columns, <<v_Blank, v_5551000>>) }

\* The columns a table of the row-level specification is drawn from, in table order
RowColumnPool ==
    << c_Phone(2), c_Phone(4), c_Phone(6), c_Email(2), c_Email(6),
       c_Name, c_OwnerName, c_FirstName, c_City >>

v_Mary == StrVal(<<"M","a","r","y">>)

v_MaryJane == StrVal(<<"M","a","r","y"," "," ","J","a","n","e"," ">>)

v_MaryJaneWatson == StrVal(<<"M","a","r","y"," ","J","a","n","e"," ","W","a","t","s","o","n">>)

v_Bob == StrVal(<<"B","o","b">>)

\* The cells a column of the row-level specification is drawn from: missing, blank, or
\* a text; a phone or email column of ordinal i holds the digit i, so that a slot's
\* content names the column it came from
CellPool(col) ==
    CASE col \in { c_Phone(i) : i \in {2, 4, 6} } \cup { c_Email(i) : i \in {2, 6} }
            -> { NaN, v_Blank, StrVal(<<col[Len(col)]>>) }
      [] col = c_Name      -> { NaN, v_Blank, v_Mary, v_MaryJane, v_MaryJaneWatson }
      [] col = c_OwnerName -> { NaN, v_Bob }
      [] col = c_FirstName -> { v_Jane }
      [] col = c_City      -> { NaN, v_Springfield }

\* The headers of the row-level specification: at most MaxCols columns of the pool
RowHeaders ==
    { SelectSeq(RowColumnPool, LAMBDA c : c \in S) :
        S \in { T \in SUBSET SeqToSet(RowColumnPool) : Cardinality(T) <= MaxCols } }

RECURSIVE RowsOver(_)
\* Every row over the given columns with each cell drawn from its pool
RowsOver(columns) ==
    IF columns = <<>> THEN { EmptyMap }
    ELSE { Put(r, Head(columns), v) : r \in RowsOver(Tail(columns)), v \in CellPool(Head(columns)) }

(* ------------------ process_memory_files as a state machine ------------ *)

VARIABLES
    pc,                 \* "idle": between files; "rows": inside process_file_content's
                        \* row loop; "done": process_memory_files has returned;
                        \* "error": an exception left process_memory_files
    files,              \* the files read so far: [kind, columns, rows], each row
                        \* [cells, kept]: its cells and whether line 471 appended
                        \* its record
    column_map,         \* the column mapping of the file being processed
    file_records,       \* file_records of the file being processed
    all_processed_data, \* the non-empty frames of the files processed so far
    output,             \* the frame process_memory_files returns
    rpc,                \* row-level specification: "input", "mapped", "normalized",
                        \* "filtered" ("off" in a run of process_memory_files)
    in_columns,         \* row-level specification: the table's columns
    in_row,             \* row-level specification: the row
    row_result,      \* row-level specification: what _map_input_to_output gave
    kept,               \* row-level specification: what _has_contact_info gave
    workers,            \* process_files: per input file the state of its call of
                        \* process_file in the pool, [st, df]: "queued", "running",
                        \* "done", and the frame it returned
    finished,           \* process_files: the files' positions in the order in which
                        \* their calls returned
    results             \* process_files: the frames list(executor.map(...)) has taken

vars == <<pc, files, column_map, file_records, all_processed_data, output,
          rpc, in_columns, in_row, row_result, kept, workers, finished, results>>

rowvars == <<rpc, in_columns, in_row, row_result, kept>>

poolvars == <<workers, finished, results>>

TotalRows == LET n[i \in 0..Len(files)] == IF i = 0 THEN 0 ELSE n[i - 1] + Len(files[i].rows)
             IN  n[Len(files)]

Init ==
    /\ pc = "idle"
    /\ files = <<>>
    /\ column_map = EmptyMap
    /\ file_records = <<>>
    /\ all_processed_data = <<>>
    /\ output = EmptyFrame(<<>>)
    /\ rpc = "off"
    /\ in_columns = <<>>
    /\ in_row = EmptyMap
    /\ row_result = Returned(EmptyMap)
    /\ kept = FALSE
    /\ workers = <<>> /\ finished = <<>> /\ results = <<>>

\* Lines 570-572 for the frame df that process_file_content returned
CollectFrame(df) == IF IsEmptyFrame(df) THEN all_processed_data ELSE Append(all_processed_data, df)

\* Lines 455-457: a file whose extension is none of .csv, .xlsx, .xls
ProcessFile_Unsupported ==
    /\ pc = "idle" /\ Len(files) < MaxFiles
    /\ files' = Append(files, [kind |-> "unsupported", columns |-> <<>>, rows |-> <<>>])
    /\ all_processed_data' = CollectFrame(EmptyFrame(output_columns))
    /\ UNCHANGED <<pc, column_map, file_records, output, rowvars, poolvars>>

\* Lines 449-454 and 476-478: the reader raises on the file's bytes
ProcessFile_Unparseable ==
    /\ pc = "idle" /\ Len(files) < MaxFiles
    /\ files' = Append(files, [kind |-> "unparseable", columns |-> <<>>, rows |-> <<>>])
    /\ all_processed_data' = CollectFrame(EmptyFrame(output_columns))
    /\ UNCHANGED <<pc, column_map, file_records, output, rowvars, poolvars>>

\* The header of the tables that may have no row at all; a table with any other header
\* of the pool has at least one row
EmptyTableHeader == TableA_columns

\* Lines 449-463: the file is read and its column mapping created
ProcessFile_Start ==
    /\ pc = "idle" /\ Len(files) < MaxFiles
    /\ \E columns \in Headers :
          /\ TotalRows < MaxRows \/ columns = EmptyTableHeader
          /\ files' = Append(files, [kind |-> "table", columns |-> columns, rows |-> <<>>])
          /\ column_map' = _create_column_mapping(columns)
    /\ file_records' = <<>>
    /\ pc' = "rows"
    /\ UNCHANGED <<all_processed_data, output, rowvars, poolvars>>

\* The row loop without the contact-info test of line 470
RowOutcome_unfiltered(processed_row) ==
    IF processed_row.raised
    THEN [failed |-> TRUE, kept |-> FALSE, records |-> <<>>]
    ELSE [failed |-> FALSE, kept |-> TRUE, records |-> Append(file_records, processed_row.row)]

\* What the row loop does with the result of _map_input_to_output for one row (lines
\* 468-471, and 476-478 when it raised)
RowOutcome(processed_row) ==
    IF processed_row.raised
    THEN [failed |-> TRUE, kept |-> FALSE, records |-> <<>>]
    ELSE IF _has_contact_info(processed_row.row)
    THEN [failed |-> FALSE, kept |-> TRUE, records |-> Append(file_records, processed_row.row)]
    ELSE [failed |-> FALSE, kept |-> FALSE, records |-> file_records]

\* The row loop in which a row that raises ends the file with the records collected
\* before it
RowEffect_keeps_collected(row, res) ==
    /\ files' = [files EXCEPT ![Len(files)].rows = Append(@, [cells |-> row, kept |-> res.kept])]
    /\ file_records' = res.records
    /\ pc' = IF res.failed THEN "idle" ELSE "rows"
    /\ all_processed_data' =
          IF res.failed THEN CollectFrame(DataFrame(file_records)) ELSE all_processed_data

\* Lines 466-478 for one row: the files' log, the records of the file, and the end of
\* the file when the row raised
RowEffect(row, res) ==
    /\ files' = [files EXCEPT ![Len(files)].rows = Append(@, [cells |-> row, kept |-> res.kept])]
    /\ file_records' = res.records
    /\ pc' = IF res.failed THEN "idle" ELSE "rows"
    /\ all_processed_data' =
          IF res.failed THEN CollectFrame(EmptyFrame(output_columns)) ELSE all_processed_data

\* One iteration of the row loop
ProcessRow ==
    /\ pc = "rows" /\ TotalRows < MaxRows
    /\ \E row \in InputRows(files[Len(files)].columns) :
          RowEffect(row, RowOutcome(_map_input_to_output(row, column_map)))
    /\ UNCHANGED <<column_map, output, rowvars, poolvars>>

\* Lines 473-474 and 570-572: the rows are exhausted
ProcessFile_Return ==
    /\ pc = "rows"
    /\ files[Len(files)].rows # <<>> \/ files[Len(files)].columns = EmptyTableHeader
    /\ all_processed_data' = CollectFrame(DataFrame(file_records))
    /\ file_records' = <<>>
    /\ pc' = "idle"
    /\ UNCHANGED <<files, column_map, output, rowvars, poolvars>>

\* Line 574: every file is processed
CombineAndDeduplicate ==
    /\ pc = "idle"
    /\ output' = _combine_and_deduplicate(all_processed_data)
    /\ pc' = "done"
    /\ UNCHANGED <<files, column_map, file_records, all_processed_data, rowvars, poolvars>>

Next ==
    \/ ProcessFile_Unsupported
    \/ ProcessFile_Unparseable
    \/ ProcessFile_Start
    \/ ProcessRow
    \/ ProcessFile_Return
    \/ CombineAndDeduplicate

Spec == Init /\ [][Next]_vars

(* ------------- one row through the Column Mapper and the Normalizer ---- *)

InitRow ==
    /\ pc = "idle"
    /\ files = <<>>
    /\ column_map = EmptyMap
    /\ file_records = <<>>
    /\ all_processed_data = <<>>
    /\ output = EmptyFrame(<<>>)
    /\ rpc = "input"
    /\ in_columns \in RowHeaders
    /\ in_row \in RowsOver(in_columns)
    /\ row_result = Returned(EmptyMap)
    /\ kept = FALSE
    /\ workers = <<>> /\ finished = <<>> /\ results = <<>>

\* Line 460
Row_CreateMapping ==
    /\ rpc = "input"
    /\ column_map' = _create_column_mapping(in_columns)
    /\ rpc' = "mapped"
    /\ UNCHANGED <<pc, files, file_records, all_processed_data, output,
                   in_columns, in_row, row_result, kept, poolvars>>

\* Line 467
Row_MapInputToOutput ==
    /\ rpc = "mapped"
    /\ row_result' = _map_input_to_output(in_row, column_map)
    /\ rpc' = "normalized"
    /\ UNCHANGED <<pc, files, column_map, file_records, all_processed_data, output,
                   in_columns, in_row, kept, poolvars>>

\* Line 470, reached when line 467 did not raise
Row_HasContactInfo ==
    /\ rpc = "normalized" /\ ~row_result.raised
    /\ kept' = _has_contact_info(row_result.row)
    /\ rpc' = "filtered"
    /\ UNCHANGED <<pc, files, column_map, file_records, all_processed_data, output,
                   in_columns, in_row, row_result, poolvars>>

NextRow == Row_CreateMapping \/ Row_MapInputToOutput \/ Row_HasContactInfo

SpecRow == InitRow /\ [][NextRow]_vars

(* ------------- one row with address and unit columns ------------------- *)

c_Unit == <<"U","n","i","t">>

c_MailingUnit == <<"M","a","i","l","i","n","g"," ","U","n","i","t">>

\* The columns a table of the address-level specification is drawn from, in table order
AddrColumnPool == <<c_Address, c_Unit, c_MailingAddress, c_MailingUnit, c_Phone(1)>>

v_MainApt4B ==
    StrVal(<<"1","2","3"," ","M","a","i","n"," ","S","t"," ","A","p","t"," ","4","B">>)

v_Main == StrVal(<<"1","2","3"," ","M","a","i","n"," ","S","t">>)

v_4B == StrVal(<<"4","B">>)

v_AptUnit == StrVal(<<"5"," ","A","p","t"," ","2"," ","U","n","i","t"," ","3">>)

v_Suite == StrVal(<<"9"," ","s","u","i","t","e","7">>)

v_Oak == StrVal(<<"O","a","k">>)

v_7 == StrVal(<<"7">>)

\* The cells a column of the address-level specification is drawn from: addresses with
\* one designator, with two, with none, a missing address; a unit that is given, or
\* missing as the readers of lines 451 and 454 give it for an empty field
AddrCellPool(col) ==
    CASE col \in {c_Address, c_MailingAddress}
            -> { NaN, v_MainApt4B, v_AptUnit, v_Suite, v_Oak }
      [] col \in {c_Unit, c_MailingUnit} -> { NaN, v_7 }
      [] col = c_Phone(1) -> { v_7 }

\* The headers of the address-level specification: at most MaxCols columns of the pool
AddrHeaders ==
    { SelectSeq(AddrColumnPool, LAMBDA c : c \in S) :
        S \in { T \in SUBSET SeqToSet(AddrColumnPool) : Cardinality(T) <= MaxCols } }

RECURSIVE AddrRowsOver(_)
\* Every row over the given columns with each cell drawn from its pool
AddrRowsOver(columns) ==
    IF columns = <<>> THEN { EmptyMap }
    ELSE { Put(r, Head(columns), v) :
             r \in AddrRowsOver(Tail(columns)), v \in AddrCellPool(Head(columns)) }

InitAddr ==
    /\ pc = "idle"
    /\ files = <<>>
    /\ column_map = EmptyMap
    /\ file_records = <<>>
    /\ all_processed_data = <<>>
    /\ output = EmptyFrame(<<>>)
    /\ rpc = "input"
    /\ in_columns \in AddrHeaders
    /\ in_row \in AddrRowsOver(in_columns)
    /\ row_result = Returned(EmptyMap)
    /\ kept = FALSE
    /\ workers = <<>> /\ finished = <<>> /\ results = <<>>

\* One row of a table with address columns through lines 460, 467 and 470
SpecAddr == InitAddr /\ [][NextRow]_vars

(* ------------- the Column Mapper over tables of named columns ---------- *)

c_PhoneNoOrdinal == <<"P","h","o","n","e">>

c_EmailNoOrdinal == <<"E","m","a","i","l">>

c_Email2x == <<"E","m","a","i","l","2","_","x">>

c_Owner2First == <<"O","w","n","e","r"," ","2"," ","F","i","r","s","t"," ","N","a","m","e">>

c_Owner2Last == <<"O","w","n","e","r"," ","2"," ","L","a","s","t"," ","N","a","m","e">>

c_Owner1FirstTight == <<"O","w","n","e","r","1"," ","F","i","r","s","t"," ","N","a","m","e">>

\* The column names a table of the mapper-level specification is drawn from: two
\* spellings of the first phone, a phone and an email without ordinal, an email that
\* two patterns match, two aliases of the street address, the first name and the
\* name columns of owners 1 and 2
MapperColumnPool ==
    { c_Phone(1), c_Cell1, c_PhoneNoOrdinal, c_EmailNoOrdinal, c_Email2x,
      c_Address, c_PropertyAddress, c_FirstName,
      c_Owner1First, c_Owner1Last, c_Owner2First, c_Owner2Last, c_Owner1FirstTight }

RECURSIVE Arrangements(_, _)
\* The sequences of at most n distinct elements of S: df.columns in every table order
Arrangements(S, n) ==
    IF n = 0 THEN { <<>> }
    ELSE { <<>> } \cup UNION { { <<c>> \o t : t \in Arrangements(S \ {c}, n - 1) } : c \in S }

\* The headers of the mapper-level specification: at most MaxCols distinct columns of
\* the pool, in any order
MapperHeaders == Arrangements(MapperColumnPool, MaxCols)

\* The row whose every cell holds the name of its column, so that a field of the
\* canonical record names the column it was read from
NamedRow(columns) == RowOf(columns, [i \in 1..Len(columns) |-> StrVal(columns[i])])

InitCols ==
    /\ pc = "idle"
    /\ files = <<>>
    /\ column_map = EmptyMap
    /\ file_records = <<>>
    /\ all_processed_data = <<>>
    /\ output = EmptyFrame(<<>>)
    /\ rpc = "input"
    /\ in_columns \in MapperHeaders
    /\ in_row = NamedRow(in_columns)
    /\ row_result = Returned(EmptyMap)
    /\ kept = FALSE
    /\ workers = <<>> /\ finished = <<>> /\ results = <<>>

\* One row of a table with the given header through lines 460, 467 and 470
SpecCols == InitCols /\ [][NextRow]_vars

(* ---------------------- process_files and its pool ---------------------- *)

RECURSIVE RowLoop(_, _, _, _)
RECURSIVE RowLoopStep(_, _, _, _, _)
\* Lines 466-471 from row i on: the records of the rows that pass the contact-info
\* test, or the failure of a row whose mapping raised
RowLoop(rows, col_map, i, records) ==
    IF i > Len(rows) THEN [failed |-> FALSE, records |-> records]
    ELSE RowLoopStep(rows, col_map, i, records, _map_input_to_output(rows[i], col_map))

\* One iteration of the row loop, given the result of _map_input_to_output for row i
RowLoopStep(rows, col_map, i, records, processed_row) ==
    IF processed_row.raised THEN [failed |-> TRUE, records |-> <<>>]
    ELSE IF _has_contact_info(processed_row.row)
    THEN RowLoop(rows, col_map, i + 1, Append(records, processed_row.row))
    ELSE RowLoop(rows, col_map, i + 1, records)

\* Lines 473-478: the frame of the records, the empty frame after an exception
RowLoopFrame(res) ==
    IF res.failed THEN EmptyFrame(output_columns) ELSE DataFrame(res.records)

\* process_file_content as a function of the file: its kind, columns and rows
process_file_content(file) ==
    IF file.kind # "table" THEN EmptyFrame(output_columns)
    ELSE RowLoopFrame(RowLoop(file.rows, _create_column_mapping(file.columns), 1, <<>>))

\* process_file: a file that cannot be opened gives the empty frame (lines 498-500)
process_file(file) ==
    IF file.kind = "unreadable" THEN EmptyFrame(output_columns)
    ELSE process_file_content(file)

\* The rows of the input files of process_files, per header: one record, a record with
\* the same identity in another letter case and with another phone, a record
\* without contact information, and a table whose second row raises
PoolRows(columns) ==
    CASE columns = TableA_columns ->
            { << RowOf(columns, Scenario_values) >>,
              << RowOf(columns, [Scenario_values EXCEPT ![7] = NaN]) >> }
      [] columns = TableB_columns ->
            { << RowOf(columns, Scenario_values) >>,
              << RowOf(columns, [Scenario_values EXCEPT ![3] = v_il, ![7] = v_5552000]) >> }
      [] columns = <<c_Name, c_Phone(1)>> ->
            { << RowOf(columns, <<v_Jane, v_5551000>>), RowOf(columns, <<v_Blank, v_5551000>>) >> }

\* The files process_files is given: a path that cannot be opened, a file with an
\* unsupported extension, and tables of at most MaxRows rows
PoolFiles ==
    { [kind |-> k, columns |-> <<>>, rows |-> <<>>] : k \in {"unreadable", "unsupported"} }
        \cup UNION { { [kind |-> "table", columns |-> h, rows |-> r] :
                          r \in { x \in PoolRows(h) : Len(x) <= MaxRows } } :
                     h \in { TableA_columns, TableB_columns, <<c_Name, c_Phone(1)>> } }

RECURSIVE FileLists(_)
\* The lists of at most n input files
FileLists(n) ==
    IF n = 0 THEN { <<>> }
    ELSE { <<>> } \cup { <<f>> \o t : f \in PoolFiles, t \in FileLists(n - 1) }

\* Lines 512-517: the pool is created and every file is submitted
InitPool ==
    /\ pc = "pool"
    /\ files \in FileLists(MaxFiles)
    /\ column_map = EmptyMap
    /\ file_records = <<>>
    /\ all_processed_data = <<>>
    /\ output = EmptyFrame(<<>>)
    /\ rpc = "off"
    /\ in_columns = <<>>
    /\ in_row = EmptyMap
    /\ row_result = Returned(EmptyMap)
    /\ kept = FALSE
    /\ workers = [i \in 1..Len(files) |-> [st |-> "queued", df |-> EmptyFrame(<<>>)]]
    /\ finished = <<>>
    /\ results = <<>>

\* A worker process takes the next call of process_file from the queue, in the
\* order of submission
Worker_Start ==
    /\ pc = "pool"
    /\ \E i \in 1..Len(files) :
          /\ workers[i].st = "queued"
          /\ \A k \in 1..(i - 1) : workers[k].st # "queued"
          /\ workers' = [workers EXCEPT ![i].st = "running"]
    /\ UNCHANGED <<pc, files, column_map, file_records, all_processed_data, output,
                   rowvars, finished, results>>

\* A call of process_file returns its frame; the calls return in any order
Worker_Return ==
    /\ pc = "pool"
    /\ \E i \in 1..Len(files) :
          /\ workers[i].st = "running"
          /\ workers' = [workers EXCEPT ![i] = [st |-> "done", df |-> process_file(files[i])]]
          /\ finished' = Append(finished, i)
    /\ UNCHANGED <<pc, files, column_map, file_records, all_processed_data, output,
                   rowvars, results>>

\* The results taken in the order in which the calls returned: the position of the
\* next returned call, 0 when every returned call is taken
map_next_as_completed(collected, order) ==
    IF Len(collected) < Len(order) THEN order[Len(collected) + 1] ELSE 0

\* The position whose result the iterator of executor.map yields next: the results
\* come in the order of the input list, whatever the order in which the calls returned
map_next(collected, order) == Len(collected) + 1

\* Line 517: list(...) takes the next result of executor.map, waiting until the call
\* for that position has returned
Map_Next ==
    /\ pc = "pool"
    /\ map_next(results, finished) \in 1..Len(files)
    /\ workers[map_next(results, finished)].st = "done"
    /\ results' = Append(results, workers[map_next(results, finished)].df)
    /\ UNCHANGED <<pc, files, column_map, file_records, all_processed_data, output,
                   rowvars, workers, finished>>

\* Line 517 and the end of the with block: the list of results is complete and the
\* pool is shut down
Pool_Exit ==
    /\ pc = "pool"
    /\ Len(results) = Len(files)
    /\ \A i \in 1..Len(files) : workers[i].st = "done"
    /\ pc' = "collected"
    /\ UNCHANGED <<files, column_map, file_records, all_processed_data, output,
                   rowvars, poolvars>>

\* Lines 520-522: the frames that are not empty, in the order of the list
NonEmptyFrames(frames) == SelectSeq(frames, LAMBDA frame : ~IsEmptyFrame(frame))

\* Lines 520-524
Pool_Combine ==
    /\ pc = "collected"
    /\ all_processed_data' = NonEmptyFrames(results)
    /\ output' = _combine_and_deduplicate(NonEmptyFrames(results))
    /\ pc' = "done"
    /\ UNCHANGED <<files, column_map, file_records, rowvars, poolvars>>

NextPool == Worker_Start \/ Worker_Return \/ Map_Next \/ Pool_Exit \/ Pool_Combine

\* process_files on a list of files
SpecPool == InitPool /\ [][NextPool]_vars

(* ================================ claims =============================== *)

\* The records handed to _combine_and_deduplicate, in processing order: earlier file
\* first, then earlier row
Accumulated ==
    LET r[i \in 0..Len(all_processed_data)] ==
            IF i = 0 THEN <<>> ELSE r[i - 1] \o all_processed_data[i].rows
    IN  r[Len(all_processed_data)]

\* A value that is a string with at least one character
NonEmptyString(v) == IsString(v) /\ v.s # <<>>

\* A cell that is missing, empty or whitespace only
BlankCell(v) == isna(v) \/ (IsString(v) /\ strip(v.s) = <<>>)

\* C1 as stated: when process_memory_files has returned, the output's columns are the
\* canonical field list, in order, and that list has exactly 27 fields.
C1_Original ==
    pc = "done" => output.columns = output_columns /\ Len(output_columns) = 27

\* C1 (amended): when process_memory_files has returned, with or without rows, the
\* output's columns are the canonical field list in canonical order, every output row
\* has exactly these fields, and the list has exactly 28 fields.
C1_OutputColumns ==
    pc = "done" =>
        /\ output.columns = output_columns
        /\ Len(output.columns) = 28
        /\ Cardinality(SeqToSet(output.columns)) = 28
        /\ \A j \in 1..Len(output.rows) : DOMAIN output.rows[j] = SeqToSet(output_columns)

C1_Witness == pc = "done" /\ Len(files) = 2 /\ Len(output.rows) >= 1

\* The cells of a source row that back a phone slot, an email slot or Mailing Address
\* under the mapping m
ContactCellsOf(m, cells) ==
    { cells[m[key]] :
        key \in { k \in DOMAIN m :
                    \/ StartsAt(k, 1, <<"P","h","o","n","e"," ">>)
                    \/ StartsAt(k, 1, <<"E","m","a","i","l">>)
                    \/ k = F_MailingAddress } }

\* The same, for the mapping that _create_column_mapping gives the columns
ContactCells(columns, cells) == ContactCellsOf(_create_column_mapping(columns), cells)

\* C3 as stated: every output record has a non-empty phone slot, a non-empty email
\* slot or a non-empty Mailing Address, and the record of a source row whose phone,
\* email and mailing-address cells are all absent or blank is never kept.
C3_ContactInfo ==
    /\ pc = "done" =>
          \A j \in 1..Len(output.rows) :
              \/ \E i \in 1..PhoneSlots : NonEmptyString(output.rows[j][PhoneField(i)])
              \/ \E i \in 1..EmailSlots : NonEmptyString(output.rows[j][EmailField(i)])
              \/ NonEmptyString(output.rows[j][F_MailingAddress])
    /\ \A i \in 1..Len(files) : \A j \in 1..Len(files[i].rows) :
          (\A v \in ContactCells(files[i].columns, files[i].rows[j].cells) : BlankCell(v))
              => ~files[i].rows[j].kept

\* The identity fields of a record
KeyFields == <<F_StreetAddress, F_City, F_State, F_PostalCode, F_FirstName, F_LastName>>

\* The identity of a record as the claims state it: each identity field lower-cased
\* and trimmed, a missing one counting as empty
NormTuple(rec) ==
    [i \in 1..Len(KeyFields) |->
        IF isna(rec[KeyFields[i]]) THEN <<>> ELSE strip(lower(str(rec[KeyFields[i]])))]

\* C4 as stated: of the kept records that agree on the lower-cased, trimmed identity
\* fields (an empty field agreeing with a whitespace-only or missing one), exactly one
\* is in the output, and it is the earliest processed.
C4_DedupStability ==
    pc = "done" =>
        \A i \in 1..Len(Accumulated) :
            LET same  == { k \in 1..Len(Accumulated) :
                              NormTuple(Accumulated[k]) = NormTuple(Accumulated[i]) }
                shown == { j \in 1..Len(output.rows) :
                              NormTuple(output.rows[j]) = NormTuple(Accumulated[i]) }
            IN  /\ Cardinality(shown) = 1
                /\ \A j \in shown : output.rows[j] = Accumulated[SetMin(same)]

\* C5: every output record is, field for field, the earliest accumulated record with
\* its identity key; nothing of a discarded duplicate is in it.
C5_WinnerTakesAll ==
    pc = "done" =>
        \A j \in 1..Len(output.rows) :
            \E i \in 1..Len(Accumulated) :
                /\ output.rows[j] = Accumulated[i]
                /\ \A k \in 1..(i - 1) :
                      _generate_unique_key(Accumulated[k]) # _generate_unique_key(Accumulated[i])

\* A duplicate was discarded whose Phone 1 differs from the winner's
C5_Witness ==
    /\ pc = "done"
    /\ \E i, k \in 1..Len(Accumulated) :
          /\ i < k
          /\ _generate_unique_key(Accumulated[k]) = _generate_unique_key(Accumulated[i])
          /\ Accumulated[k][PhoneField(1)] # Accumulated[i][PhoneField(1)]
          /\ \E j \in 1..Len(output.rows) : output.rows[j] = Accumulated[i]
          /\ \A j \in 1..Len(output.rows) : output.rows[j] # Accumulated[k]

\* The result r of _map_input_to_output is a record that passes the contact-info
\* predicate
RowPasses(r) == ~r.raised /\ _has_contact_info(r.row)

\* What _map_input_to_output returns for each row of the pools, under the mapping that
\* _create_column_mapping gives the row's header
ResultOfRow ==
    [h \in Headers |->
        [row \in InputRows(h) |-> _map_input_to_output(row, _create_column_mapping(h))]]

\* Whether that result is a record that passes the contact-info predicate
PassesOfRow ==
    [h \in Headers |-> [row \in InputRows(h) |-> RowPasses(ResultOfRow[h][row])]]

\* No row read so far passes the contact-info predicate
NoRowPasses ==
    \A i \in 1..Len(files) : \A j \in 1..Len(files[i].rows) :
        ~PassesOfRow[files[i].columns][files[i].rows[j].cells]

\* C6: no exception leaves process_memory_files, and when it has returned from a run
\* with no file, or with no row that passes the contact-info predicate, the output has
\* the canonical columns and zero rows.
C6_EmptyInput ==
    /\ pc # "error"
    /\ (pc = "done" /\ NoRowPasses) => output = EmptyFrame(output_columns)

\* A run that read rows, none of which passed, has returned
C6_Witness ==
    /\ pc = "done" /\ NoRowPasses
    /\ \E i \in 1..Len(files) : files[i].rows # <<>>
    /\ output = EmptyFrame(output_columns)

\* The log of a file with the given columns and one row of the scenario's values
ScenarioFile(columns) ==
    [kind |-> "table", columns |-> columns,
     rows |-> << [cells |-> RowOf(columns, Scenario_values), kept |-> TRUE] >>]

\* C7 as stated: Table A then Table B, each with the scenario's row, give exactly one
\* output record, with Street Address "1 Elm St" and Phone 1 "555-1000".
C7_EndToEnd ==
    (pc = "done" /\ files = <<ScenarioFile(TableA_columns), ScenarioFile(TableB_columns)>>)
        => /\ Len(output.rows) = 1
           /\ output.rows[1][F_StreetAddress] = v_Elm
           /\ output.rows[1][PhoneField(1)] = v_5551000

\* _map_input_to_output has returned a record for the row of the row-level specification
RowNormalized == rpc \in {"normalized", "filtered"} /\ ~row_result.raised

\* C2 as stated: every field of the record _map_input_to_output returns is a string; a
\* mapped cell that is missing (NaN) has become the empty string.
C2_AllStrings ==
    RowNormalized => \A f \in DOMAIN row_result.row : IsString(row_result.row[f])

\* The source ordinal of a column that a pattern of the family matches, 0 when none does
SourceOrdinal(patterns, col) ==
    IF FirstMatch(patterns, col) = 0 THEN 0
    ELSE StrToInt(re_match(patterns[FirstMatch(patterns, col)], col)[1])

\* The ordinals the family has a column for
FamilyOrdinals(patterns) ==
    { SourceOrdinal(patterns, in_columns[i]) : i \in 1..Len(in_columns) } \ {0}

\* The ordinals of the family's columns whose cell is present and not blank, ascending
PresentOrdinals(patterns) ==
    SortInts({ SourceOrdinal(patterns, in_columns[i]) :
                 i \in { n \in 1..Len(in_columns) :
                           /\ SourceOrdinal(patterns, in_columns[n]) > 0
                           /\ ~BlankCell(in_row[in_columns[n]]) } })

\* The cell of the family's column with the given ordinal (the pool has one per ordinal)
CellOfOrdinal(patterns, n) ==
    in_row[CHOOSE c \in SeqToSet(in_columns) : SourceOrdinal(patterns, c) = n]

\* C8 as stated, for a row whose phone columns have ordinals 1..5: Phone 1..k hold the
\* present, non-blank source phones in ascending order of source ordinal (k their
\* number), and Phone k+1..5 are empty, so no non-empty slot follows an empty one.
C8_PhoneCompaction ==
    (RowNormalized /\ FamilyOrdinals(phone_patterns) \subseteq 1..PhoneSlots) =>
        LET ords == PresentOrdinals(phone_patterns)
        IN  \A j \in 1..PhoneSlots :
                row_result.row[PhoneField(j)] =
                    IF j <= Len(ords)
                    THEN StrVal(strip(str(CellOfOrdinal(phone_patterns, ords[j]))))
                    ELSE EmptyStr

\* C9 as stated: when the row has phone and email columns for the same ordinals
\* (ordinals above 5 included) with the same cells, the k-th email slot holds what the
\* k-th phone slot holds.
C9_EmailLikePhone ==
    ( /\ RowNormalized
      /\ FamilyOrdinals(phone_patterns) = FamilyOrdinals(email_patterns)
      /\ \A n \in FamilyOrdinals(phone_patterns) :
            CellOfOrdinal(phone_patterns, n) = CellOfOrdinal(email_patterns, n) )
        => \A k \in 1..PhoneSlots :
               row_result.row[EmailField(k)] = row_result.row[PhoneField(k)]

\* The full-name cell the Normalizer splits: the first full-name field that the row
\* has and that is not missing; <<>> when there is none
FullNameCell ==
    LET hit == { i \in 1..Len(full_name_fields) :
                    /\ full_name_fields[i] \in DOMAIN in_row
                    /\ ~isna(in_row[full_name_fields[i]]) }
    IN  IF hit = {} THEN <<>> ELSE <<in_row[full_name_fields[SetMin(hit)]]>>

\* The whitespace-separated tokens of a text: the maximal runs of non-space characters
Tokens(s) ==
    LET starts == { p \in 1..Len(s) : ~IsSpace(s[p]) /\ (p = 1 \/ IsSpace(s[p - 1])) }
        order  == SortInts(starts)
    IN  [i \in 1..Len(order) |-> SubSeq(s, order[i], order[i] + RunLen(s, order[i], IsNonSpace) - 1)]

\* The mapping has neither First Name nor Last Name and the row has a full name with
\* at least one token
NameSplitCase ==
    /\ rpc \in {"normalized", "filtered"}
    /\ F_FirstName \notin DOMAIN column_map /\ F_LastName \notin DOMAIN column_map
    /\ FullNameCell # <<>>
    /\ IsString(FullNameCell[1]) /\ Tokens(FullNameCell[1].s) # <<>>

\* C10: in that case the record is returned with the first token as First Name and
\* the remaining tokens, joined by single spaces, as Last Name (empty for one token);
\* "Mary Jane Watson" gives "Mary" and "Jane Watson".
C10_NameSplitting ==
    NameSplitCase =>
        LET t == Tokens(FullNameCell[1].s)
        IN  /\ ~row_result.raised
            /\ row_result.row[F_FirstName] = StrVal(t[1])
            /\ row_result.row[F_LastName] =
                  StrVal(IF Len(t) = 1 THEN <<>>
                         ELSE IF Len(t) = 2 THEN t[2]
                         ELSE t[2] \o <<" ">> \o join(<<" ">>, SubSeq(t, 3, Len(t))))
            /\ FullNameCell[1] = v_MaryJaneWatson =>
                  /\ row_result.row[F_FirstName] = v_Mary
                  /\ row_result.row[F_LastName] =
                        StrVal(<<"J","a","n","e"," ","W","a","t","s","o","n">>)

\* "Mary Jane Watson" has been split
C10_Witness ==
    /\ NameSplitCase
    /\ FullNameCell[1] = v_MaryJaneWatson
    /\ row_result.row[F_LastName] = StrVal(<<"J","a","n","e"," ","W","a","t","s","o","n">>)

\* The cell of the source column that the mapping gives the field; <<>> when the field
\* is not mapped
SourceCell(field) ==
    IF field \in DOMAIN column_map /\ column_map[field] \in DOMAIN in_row
    THEN <<in_row[column_map[field]]>>
    ELSE <<>>

\* No unit is separately provided for the unit field: it is not mapped, or its cell is
\* missing (the readers give NaN for an empty field) or empty
UnitNotProvided(unit_field) ==
    \/ SourceCell(unit_field) = <<>>
    \/ isna(SourceCell(unit_field)[1])
    \/ SourceCell(unit_field)[1] = EmptyStr

\* The positions of s where a designator followed by a token starts
DesignatorStarts(s) == { p \in 1..Len(s) : UnitMatch1(s, p).ok }

\* The token of the first designator match of s
FirstUnitToken(s) ==
    LET m == UnitMatch1(s, SetMin(DesignatorStarts(s)))
    IN  SubSeq(s, m.gs, m.end)

\* s with its first designator match (designator and token) removed, trimmed
WithoutFirstUnit(s) ==
    LET p == SetMin(DesignatorStarts(s))
        m == UnitMatch1(s, p)
    IN  strip(SubSeq(s, 1, p - 1) \o SubSeq(s, m.end + 1, Len(s)))

\* The address and unit field pairs of the record
UnitPairs == { <<F_StreetAddress, F_Unit>>, <<F_MailingAddress, F_MailingUnit>> }

\* The address field of the pair has a text with a designator match, and no unit is
\* separately provided
UnitExtractionCase(pair) ==
    /\ RowNormalized
    /\ SourceCell(pair[1]) # <<>>
    /\ IsString(SourceCell(pair[1])[1])
    /\ DesignatorStarts(SourceCell(pair[1])[1].s) # {}
    /\ UnitNotProvided(pair[2])

\* C11 as stated: when no unit is separately provided and the address has a designator
\* followed by a token, the unit is the token of the first such match and the address
\* is the input with that one match removed; "123 Main St Apt 4B" gives "123 Main St"
\* and "4B".  The same for Mailing Address / Mailing Unit #.
C11_UnitExtraction ==
    \A pair \in UnitPairs :
        UnitExtractionCase(pair) =>
            LET a == SourceCell(pair[1])[1]
            IN  /\ row_result.row[pair[2]] = StrVal(FirstUnitToken(a.s))
                /\ row_result.row[pair[1]] = StrVal(WithoutFirstUnit(a.s))
                /\ a = v_MainApt4B =>
                      row_result.row[pair[1]] = v_Main /\ row_result.row[pair[2]] = v_4B

\* C12 as stated: _map_input_to_output never raises, whatever the cells of the row are
\* (absent, missing, empty, whitespace only), and a full name without any token leaves
\* First Name and Last Name empty.
C12_NeverRaises ==
    rpc \in {"normalized", "filtered"} =>
        /\ ~row_result.raised
        /\ DOMAIN row_result.row = SeqToSet(output_columns)
        /\ ( /\ F_FirstName \notin DOMAIN column_map /\ F_LastName \notin DOMAIN column_map
             /\ FullNameCell # <<>> /\ BlankCell(FullNameCell[1]) )
              => row_result.row[F_FirstName] = EmptyStr /\ row_result.row[F_LastName] = EmptyStr

\* The result of _map_input_to_output for row j of the i-th file of the run
LoggedResult(i, j) == ResultOfRow[files[i].columns][files[i].rows[j].cells]

\* The processing of the i-th file failed: it could not be read, or a row raised
FileFailed(i) ==
    files[i].kind # "table" \/ \E j \in 1..Len(files[i].rows) : LoggedResult(i, j).raised

\* The records of the rows of the i-th file that pass the contact-info predicate, in
\* row order
PassingRecords(i) ==
    LET r[j \in 0..Len(files[i].rows)] ==
            IF j = 0 THEN <<>>
            ELSE IF PassesOfRow[files[i].columns][files[i].rows[j].cells]
                 THEN Append(r[j - 1], LoggedResult(i, j).row)
            ELSE r[j - 1]
    IN  r[Len(files[i].rows)]

\* The frames process_memory_files collects in a run over the files of this run
\* without those whose processing failed, in input order
SurvivingFrames ==
    LET a[i \in 0..Len(files)] ==
            IF i = 0 THEN <<>>
            ELSE IF FileFailed(i) \/ PassingRecords(i) = <<>> THEN a[i - 1]
            ELSE Append(a[i - 1], DataFrame(PassingRecords(i)))
    IN  a[Len(files)]

\* C13: no exception leaves the run, and when it has returned, the frames collected
\* are those of the same files without the ones whose processing failed, and the
\* output is what _combine_and_deduplicate makes of them: a failed file contributes no
\* record, not even the records of the rows before the one that raised.
C13_FailedTable ==
    /\ pc # "error"
    /\ pc = "done" =>
          /\ all_processed_data = SurvivingFrames
          /\ output = _combine_and_deduplicate(all_processed_data)

\* A run has returned in which a row raised after a row of the same file was kept, and
\* another file gave a record
C13_Witness ==
    /\ pc = "done"
    /\ \E i \in 1..Len(files) :
          /\ files[i].kind = "table" /\ FileFailed(i)
          /\ \E j \in 1..Len(files[i].rows) : files[i].rows[j].kept
    /\ \E i \in 1..Len(files) : ~FileFailed(i)
    /\ Len(output.rows) >= 1

\* The tables with the columns of `columns` in every column order
Orderings(columns) ==
    { p \in Arrangements(SeqToSet(columns), Len(columns)) : Len(p) = Len(columns) }

\* C14: the column mapping is a function of the table's set of column names: the
\* mapping created for the table is the mapping _create_column_mapping returns for
\* the same table again and for every table with the same column names in another
\* column order.
C14_PureOfColumnSet ==
    rpc # "input" =>
        \A p \in Orderings(in_columns) : _create_column_mapping(p) = column_map

\* The positions of the aliases in `names` that are columns of the table
AliasesPresent(names, columns) == { j \in 1..Len(names) : names[j] \in SeqToSet(columns) }

\* C16: every canonical field with an exact-alias list of which an alias is a column of
\* the table is mapped to the first alias in list order that is present, whatever
\* the column order and whatever pattern discovery finds; a field none of whose
\* aliases is present, and that no pattern supplies, is absent from the mapping.
C16_ExactAliasPrecedence ==
    rpc # "input" =>
        \A i \in 1..Len(column_mappings) :
            ~EndsWith(column_mappings[i].field, <<"P","a","t","t","e","r","n">>) =>
                IF AliasesPresent(column_mappings[i].names, in_columns) # {}
                THEN /\ column_mappings[i].field \in DOMAIN column_map
                     /\ column_map[column_mappings[i].field]
                          = column_mappings[i].names[
                                SetMin(AliasesPresent(column_mappings[i].names, in_columns))]
                ELSE \/ column_mappings[i].field \in {F_FirstName, F_LastName}
                     \/ column_mappings[i].field \notin DOMAIN column_map

\* The keys of the mapping m that begin with `prefix` and are backed by the column col
SlotsOf(m, prefix, col) == { k \in DOMAIN m : StartsAt(k, 1, prefix) /\ m[k] = col }

\* The patterns of the list that match the column col, by position in the list
MatchingPatterns(patterns, col) == { j \in 1..Len(patterns) : re_match(patterns[j], col) # <<>> }

\* Within the family with the given patterns and key prefix, the column col backs at
\* most one slot of the mapping m, and a slot it backs is the one whose ordinal the
\* first matching pattern of the list captured
ExclusiveIn(m, patterns, prefix, col) ==
    /\ Cardinality(SlotsOf(m, prefix, col)) <= 1
    /\ \A k \in SlotsOf(m, prefix, col) :
          /\ MatchingPatterns(patterns, col) # {}
          /\ k = prefix \o re_match(patterns[SetMin(MatchingPatterns(patterns, col))], col)[1]

\* C17: pattern discovery is exclusive: in the phone family and in the email family
\* every source column backs at most one slot, the slot of the first pattern in list
\* order that matches it.
C17_PatternExclusive ==
    rpc # "input" =>
        \A i \in 1..Len(in_columns) :
            /\ ExclusiveIn(column_map, phone_patterns, <<"P","h","o","n","e"," ">>, in_columns[i])
            /\ ExclusiveIn(column_map, email_patterns, <<"E","m","a","i","l"," ">>, in_columns[i])

\* A column that two email patterns match backs the slot of its ordinal, next to a
\* phone column
C17_Witness ==
    /\ rpc = "mapped"
    /\ Cardinality(MatchingPatterns(email_patterns, c_Email2x)) >= 2
    /\ c_Email2x \in SeqToSet(in_columns) /\ c_Phone(1) \in SeqToSet(in_columns)
    /\ SlotsOf(column_map, <<"E","m","a","i","l"," ">>, c_Email2x) = { c_Email(2) }
    /\ SlotsOf(column_map, <<"P","h","o","n","e"," ">>, c_Phone(1)) = { c_Phone(1) }

\* The columns of the table whose name begins with a name of the family
FamilyColumns(columns, family) ==
    { c \in SeqToSet(columns) :
        \E b \in family : StartsAt(c, 1, b) }

PhoneFamily == { <<"P","h","o","n","e">>, <<"C","e","l","l">> }

EmailFamily == { <<"E","m","a","i","l">> }

\* C18: a phone or email column whose name carries no ordinal is mapped with ordinal
\* 1: when it is the only column of its family, the mapping has Phone 1 (Email 1)
\* backed by it and its value is in the first phone slot (the first email slot) of
\* the canonical record.
C18_DefaultOrdinal ==
    /\ (rpc \in {"normalized", "filtered"}
            /\ FamilyColumns(in_columns, PhoneFamily) = { c_PhoneNoOrdinal }) =>
          /\ c_Phone(1) \in DOMAIN column_map /\ column_map[c_Phone(1)] = c_PhoneNoOrdinal
          /\ ~row_result.raised /\ row_result.row[PhoneField(1)] = StrVal(c_PhoneNoOrdinal)
    /\ (rpc \in {"normalized", "filtered"}
            /\ FamilyColumns(in_columns, EmailFamily) = { c_EmailNoOrdinal }) =>
          /\ c_Email(1) \in DOMAIN column_map /\ column_map[c_Email(1)] = c_EmailNoOrdinal
          /\ ~row_result.raised /\ row_result.row[EmailField(1)] = StrVal(c_EmailNoOrdinal)

\* The columns of the table that a pattern of the list matches with an ordinal in `ordinals`
OwnerColumnsOf(columns, patterns, ordinals) ==
    { c \in SeqToSet(columns) :
        \E j \in MatchingPatterns(patterns, c) :
            StrToInt(re_match(patterns[j], c)[1]) \in ordinals }

\* The first-name and last-name columns of the owners with ordinal 2 or higher
HigherOwnerColumns(columns) ==
    OwnerColumnsOf(columns, owner_first_patterns, 2..9)
        \cup OwnerColumnsOf(columns, owner_last_patterns, 2..9)

\* C19: of the owner-name columns discovered by pattern only the pair of ordinal 1
\* is promoted to First Name and Last Name, and only when both of its columns
\* exist (otherwise the two fields hold nothing but an exact alias); a column of an
\* owner with ordinal 2 or higher is the value of no key of the mapping and its
\* cell is in no field of the canonical record.
C19_MultiOwnerReduction ==
    rpc # "input" =>
        /\ \A c \in HigherOwnerColumns(in_columns) :
              \A k \in DOMAIN column_map : column_map[k] # c
        /\ IF /\ OwnerColumnsOf(in_columns, owner_first_patterns, {1}) # {}
              /\ OwnerColumnsOf(in_columns, owner_last_patterns, {1}) # {}
           THEN /\ column_map[F_FirstName] \in OwnerColumnsOf(in_columns, owner_first_patterns, {1})
                /\ column_map[F_LastName] \in OwnerColumnsOf(in_columns, owner_last_patterns, {1})
           ELSE \A field \in {F_FirstName, F_LastName} \cap DOMAIN column_map :
                    column_map[field] \in SeqToSet(column_mappings_get(field))
        /\ (rpc \in {"normalized", "filtered"} /\ ~row_result.raised) =>
              \A c \in HigherOwnerColumns(in_columns) :
                  \A field \in DOMAIN row_result.row : row_result.row[field] # StrVal(c)

\* A table with the pair of owner 1 and a column of owner 2: the record has the
\* names of owner 1
C19_Witness ==
    /\ rpc = "normalized" /\ ~row_result.raised
    /\ {c_Owner1First, c_Owner1Last, c_Owner2First} \subseteq SeqToSet(in_columns)
    /\ HigherOwnerColumns(in_columns) = { c_Owner2First }
    /\ column_map[F_FirstName] = c_Owner1First
    /\ row_result.row[F_FirstName] = StrVal(c_Owner1First)
    /\ row_result.row[F_LastName] = StrVal(c_Owner1Last)

\* C20: two kept records whose lower-cased, trimmed identity tuples differ in at
\* least one position have different identity keys and each identity has a record in
\* the output, also when the tuples differ only in which position is empty.
C20_DistinctIdentities ==
    pc = "done" =>
        \A i, k \in 1..Len(Accumulated) :
            NormTuple(Accumulated[i]) # NormTuple(Accumulated[k]) =>
                /\ _generate_unique_key(Accumulated[i]) # _generate_unique_key(Accumulated[k])
                /\ \E j \in 1..Len(output.rows) :
                      NormTuple(output.rows[j]) = NormTuple(Accumulated[i])
                /\ \E j \in 1..Len(output.rows) :
                      NormTuple(output.rows[j]) = NormTuple(Accumulated[k])

\* What process_memory_files returns for the files in the order of the input list:
\* each file processed in turn, the frames that are not empty combined
SequentialOutput ==
    _combine_and_deduplicate(
        NonEmptyFrames([i \in 1..Len(files) |-> process_file(files[i])]))

\* C15: in process_files deduplication starts only after every call of process_file
\* has returned, and whatever the order in which the calls return the output is the
\* output of processing the same files one after the other in the order of the input
\* list.
C15_PoolBarrier ==
    /\ pc \in {"collected", "done"} =>
          /\ \A i \in 1..Len(files) : workers[i].st = "done"
          /\ Len(results) = Len(files)
    /\ pc \in {"pool", "collected"} => output = EmptyFrame(<<>>)
    /\ pc = "done" => output = SequentialOutput

\* The call for the second file returned before the call for the first; both files
\* hold a record of the same identity with different fields, and the output has the
\* record of the first file
C15_Witness ==
    /\ pc = "done"
    /\ Len(files) = 2 /\ finished = <<2, 1>>
    /\ Len(workers[1].df.rows) = 1 /\ Len(workers[2].df.rows) = 1
    /\ workers[1].df.rows[1] # workers[2].df.rows[1]
    /\ _generate_unique_key(workers[1].df.rows[1]) = _generate_unique_key(workers[2].df.rows[1])
    /\ output.rows = << workers[1].df.rows[1] >>

\* The identity key of the record _map_input_to_output gives a row of the pool, per
\* header (the empty key for a row whose mapping raises)
KeyOfRow ==
    [h \in Headers |->
        [cells \in InputRows(h) |->
            IF ResultOfRow[h][cells].raised THEN <<>>
            ELSE _generate_unique_key(ResultOfRow[h][cells].row)]]

\* Whether the j-th row read from the i-th file passes the contact-info predicate
LoggedPasses(i, j) == PassesOfRow[files[i].columns][files[i].rows[j].cells]

\* The identity key of the record of the j-th row read from the i-th file
LoggedKey(i, j) == KeyOfRow[files[i].columns][files[i].rows[j].cells]

\* The rows of the i-th file that pass the contact-info predicate, in row order, each
\* with its identity key and its record
PassingEntries(i) ==
    LET r[j \in 0..Len(files[i].rows)] ==
            IF j = 0 THEN <<>>
            ELSE IF LoggedPasses(i, j)
                 THEN Append(r[j - 1], [key |-> LoggedKey(i, j), rec |-> LoggedResult(i, j).row])
            ELSE r[j - 1]
    IN  r[Len(files[i].rows)]

\* The contact-passing rows of the files whose processing did not fail, in
\* processing order: earlier file first, then earlier row
ContactPassing ==
    LET a[i \in 0..Len(files)] ==
            IF i = 0 THEN <<>>
            ELSE IF FileFailed(i) THEN a[i - 1] ELSE a[i - 1] \o PassingEntries(i)
    IN  a[Len(files)]

\* The records of the entries that are the first with their identity key, in the
\* order of the entries
FirstOccurrences(entries) ==
    LET f[n \in 0..Len(entries)] ==
            IF n = 0 THEN <<>>
            ELSE IF \E m \in 1..(n - 1) : entries[m].key = entries[n].key THEN f[n - 1]
            ELSE Append(f[n - 1], entries[n].rec)
    IN  f[Len(entries)]

\* C21: the contact-info filter is applied before deduplication: when the run has
\* returned, the output rows are the records of the contact-passing rows (of the
\* files whose processing did not fail) that are the first with their identity key,
\* one per key, in the order of their first occurrence; a row that fails the
\* predicate is no output record and suppresses no later row with its key.
C21_FilterBeforeDedup ==
    pc = "done" => output.rows = FirstOccurrences(ContactPassing)

\* A row without contact information was read before a row with the same identity
\* key that has contact information, and the record of the later row is in the output
C21_Witness ==
    /\ pc = "done"
    /\ \E i \in 1..Len(files) : \E j \in 1..Len(files[i].rows) :
          /\ ~FileFailed(i) /\ ~LoggedPasses(i, j)
          /\ \E i2 \in i..Len(files) : \E j2 \in 1..Len(files[i2].rows) :
                /\ (i2 > i \/ j2 > j)
                /\ ~FileFailed(i2) /\ LoggedPasses(i2, j2)
                /\ LoggedKey(i2, j2) = LoggedKey(i, j)
                /\ \E n \in 1..Len(output.rows) : output.rows[n] = LoggedResult(i2, j2).row
    /\ Len(output.rows) >= 2

====
